---- MODULE Spec2Model ----
(***************************************************************************)
(* MarketPulse: the data folder loader (src/src/data_loader.py), the       *)
(* processing pipeline (src/src/data_processor.py), the analytics engine   *)
(* (src/src/analytics.py) and load_and_process_data (src/app.py).          *)
(*                                                                         *)
(* Numbers are exact: a ratio is a reduced fraction <<n, d>> with d > 0,   *)
(* so floating-point rounding is not modelled.  A DataFrame is a sequence  *)
(* of rows; a raw (just parsed) table keeps its column names and holds     *)
(* cells that may be numbers, text or missing.                             *)
(***************************************************************************)
EXTENDS Integers, Sequences, FiniteSets, TLC

\* ------------------------------------------------------------------ bounds
\* Largest magnitude of a raw numeric cell.
MaxVal == 2
\* Most entries in the data folder.
MaxFiles == 4

\* ------------------------------------------------------------- exact ratios
Abs(n) == IF n < 0 THEN 0 - n ELSE n

RECURSIVE Gcd(_, _)
Gcd(a, b) == IF b = 0 THEN a ELSE Gcd(b, a % b)

\* n / d as a reduced fraction (d # 0).
Rat(n, d) ==
  LET g == Gcd(Abs(n), Abs(d))
      s == IF d < 0 THEN 0 - 1 ELSE 1
  IN  <<(s * n) \div g, (s * d) \div g>>

Zero == <<0, 1>>
FromInt(n) == <<n, 1>>
RAdd(p, q) == Rat(p[1] * q[2] + q[1] * p[2], p[2] * q[2])
RMul(p, q) == Rat(p[1] * q[1], p[2] * q[2])
RDiv(p, q) == Rat(p[1] * q[2], p[2] * q[1])
RLess(p, q) == p[1] * q[2] < q[1] * p[2]
RLeq(p, q) == p[1] * q[2] <= q[1] * p[2]

\* --------------------------------------------------------- sequence helpers
\* The column `field` of a table, as a sequence.
Column(rows, field) == [i \in DOMAIN rows |-> rows[i][field]]

RECURSIVE Sum(_)
Sum(ints) == IF ints = <<>> THEN 0 ELSE Head(ints) + Sum(Tail(ints))

RECURSIVE RSum(_)
RSum(ratios) ==
  IF ratios = <<>> THEN Zero ELSE RAdd(Head(ratios), RSum(Tail(ratios)))

\* The mean of a non-empty sequence of ratios.
RMean(ratios) == RDiv(RSum(ratios), FromInt(Len(ratios)))

Range(s) == {s[i] : i \in DOMAIN s}

RECURSIVE Concat(_)
Concat(tables) ==
  IF tables = <<>> THEN <<>> ELSE Head(tables) \o Concat(Tail(tables))

\* The elements of the set S of integers, ascending.
RECURSIVE Ascending(_)
Ascending(S) ==
  IF S = {} THEN <<>>
  ELSE LET m == CHOOSE x \in S : \A y \in S : x <= y
       IN  <<m>> \o Ascending(S \ {m})

\* All sequences of at most n elements of S.
SeqsUpTo(S, n) == UNION {[1..k -> S] : k \in 0..n}

\* -------------------------------------------------------------- file names
\* A file name is a sequence of pieces; str.lower() lowers each piece.
Lower(piece) ==
  CASE piece = "Facebook" -> "facebook"
    [] piece = "Google"   -> "google"
    [] piece = "TikTok"   -> "tiktok"
    [] piece = "Business" -> "business"
    [] piece = ".CSV"     -> ".csv"
    [] OTHER              -> piece

LowerName(file) == [i \in DOMAIN file |-> Lower(file[i])]
\* token in file.lower()
Contains(token, lowered) == \E i \in DOMAIN lowered : lowered[i] = token
\* An extension test that accepts every file.
EndsWithAnything(lowered) == lowered # <<>>

\* file.lower().endswith('.csv')
EndsWithCsv(lowered) == lowered # <<>> /\ lowered[Len(lowered)] = ".csv"

None == "None"
SourceKeys == <<"facebook", "google", "tiktok", "business">>
KeySet == Range(SourceKeys)

\* The branch of the if/elif chain a .csv file takes: the first token its
\* lowered name contains, None when it contains none.
MatchedKey(lowered) ==
  IF Contains("facebook", lowered) THEN "facebook"
  ELSE IF Contains("google", lowered) THEN "google"
  ELSE IF Contains("tiktok", lowered) THEN "tiktok"
  ELSE IF Contains("business", lowered) THEN "business"
  ELSE None

\* ------------------------------------------------------------------ loader
\* data_files maps each key to <<>> (None) or <<table>>.
EmptyDataFiles == [k \in KeySet |-> <<>>]

\* A loop that skips a file read_csv cannot parse instead of raising.
RECURSIVE ReadFilesSkipping(_, _, _)
ReadFilesSkipping(files, on_disk, data_files) ==
  IF files = <<>> THEN [data_files |-> data_files, error |-> None]
  ELSE
    LET file == Head(files)
        lowered == LowerName(file)
        key == MatchedKey(lowered)
    IN  IF ~EndsWithCsv(lowered) \/ key = None \/ ~on_disk[file].parses
        THEN ReadFilesSkipping(Tail(files), on_disk, data_files)
        ELSE ReadFilesSkipping(Tail(files), on_disk,
                               [data_files EXCEPT ![key] = <<on_disk[file].table>>])

\* A loop that reads a file only into a key that is still None.
RECURSIVE ReadFilesKeepingFirst(_, _, _)
ReadFilesKeepingFirst(files, on_disk, data_files) ==
  IF files = <<>> THEN [data_files |-> data_files, error |-> None]
  ELSE
    LET file == Head(files)
        lowered == LowerName(file)
        key == MatchedKey(lowered)
    IN  IF ~EndsWithCsv(lowered) \/ key = None
        THEN ReadFilesKeepingFirst(Tail(files), on_disk, data_files)
        ELSE IF ~on_disk[file].parses
        THEN [data_files |-> data_files, error |-> "Error loading files"]
        ELSE ReadFilesKeepingFirst(Tail(files), on_disk,
               IF data_files[key] # <<>> THEN data_files
               ELSE [data_files EXCEPT ![key] = <<on_disk[file].table>>])

\* The loop of load_csv_files over os.listdir: pd.read_csv of an unparseable
\* file raises, the except clause returns what was read so far.
RECURSIVE ReadFiles(_, _, _)
ReadFiles(files, on_disk, data_files) ==
  IF files = <<>> THEN [data_files |-> data_files, error |-> None]
  ELSE
    LET file == Head(files)
        lowered == LowerName(file)
        key == MatchedKey(lowered)
    IN  IF ~EndsWithCsv(lowered) \/ key = None
        THEN ReadFiles(Tail(files), on_disk, data_files)
        ELSE IF ~on_disk[file].parses
        THEN [data_files |-> data_files, error |-> "Error loading files"]
        ELSE ReadFiles(Tail(files), on_disk,
                       [data_files EXCEPT ![key] = <<on_disk[file].table>>])

load_csv_files(exists, files, on_disk) ==
  IF ~exists
  THEN [data_files |-> EmptyDataFiles, error |-> "Data folder not found"]
  ELSE ReadFiles(files, on_disk, EmptyDataFiles)

\* A check that stops at the first missing key.
MissingKeysFirstOnly(data_files) ==
  LET all == SelectSeq(SourceKeys,
                       LAMBDA k : k \notin DOMAIN data_files \/ data_files[k] = <<>>)
  IN  IF all = <<>> THEN <<>> ELSE <<all[1]>>

\* The keys validate_data_files appends to missing_files, in required order.
MissingKeys(data_files) ==
  SelectSeq(SourceKeys,
            LAMBDA k : k \notin DOMAIN data_files \/ data_files[k] = <<>>)

\* A validation that accepts a mapping as soon as one source is loaded.
validate_any_loaded(data_files) ==
  IF \A k \in KeySet : data_files[k] = <<>>
  THEN [is_valid |-> FALSE, message |-> "Missing files",
        missing |-> [i \in DOMAIN SourceKeys |-> SourceKeys[i] \o ".csv"]]
  ELSE [is_valid |-> TRUE, message |-> "All files loaded successfully",
        missing |-> <<>>]

validate_data_files(data_files) ==
  LET missing_files == [i \in DOMAIN MissingKeys(data_files) |->
                          MissingKeys(data_files)[i] \o ".csv"]
  IN  IF missing_files # <<>>
      THEN [is_valid |-> FALSE, message |-> "Missing files",
            missing |-> missing_files]
      ELSE [is_valid |-> TRUE, message |-> "All files loaded successfully",
            missing |-> <<>>]

\* --------------------------------------------------------------- raw tables
\* A parsed csv file: cols, the header, and rows, each a sequence of cells
\* aligned with cols.  A cell is a number, a date literal, other text or a
\* missing value.
Num(n)  == [kind |-> "num",  v |-> n]
Day(d)  == [kind |-> "date", v |-> d]
Text    == [kind |-> "text", v |-> 0]
Missing == [kind |-> "nan",  v |-> 0]

\* The calendar days the feeds cover, and the value standing for NaT in a
\* parsed date column.
Days == {1, 2}
NaT == 0

\* str.lower().str.replace(' ', '_') on the column names the feeds use.
NormalizeColumn(name) ==
  CASE name = "Date"               -> "date"
    [] name = "Order Date"         -> "order_date"
    [] name = "Impression"         -> "impression"
    [] name = "Impressions"        -> "impressions"
    [] name = "Clicks"             -> "clicks"
    [] name = "Spend"              -> "spend"
    [] name = "Attributed Revenue" -> "attributed_revenue"
    [] name = "Total Revenue"      -> "total_revenue"
    [] OTHER                       -> name

\* 'date' in col.lower(), for normalized names.
HasDate(col) == col \in {"date", "order_date"}

HasCol(cols, name) == \E i \in DOMAIN cols : cols[i] = name
ColIndex(cols, name) == CHOOSE i \in DOMAIN cols :
                          cols[i] = name /\ \A j \in 1..(i - 1) : cols[j] # name

\* A date parser that takes any text for the first day.
to_datetime_guessing(cell) ==
  IF cell.kind = "date" THEN cell.v ELSE IF cell.kind = "text" THEN 1 ELSE NaT

\* pd.to_datetime(..., errors='coerce') of one cell.
to_datetime(cell) == IF cell.kind = "date" THEN cell.v ELSE NaT
\* pd.to_numeric(..., errors='coerce').fillna(0) of one cell.
to_numeric_fillna(cell) == IF cell.kind = "num" THEN cell.v ELSE 0

marketing_numeric_cols ==
  {"impressions", "impression", "clicks", "spend", "attributed_revenue"}
business_numeric_cols ==
  {"orders", "new_orders", "new_customers", "total_revenue", "gross_profit",
   "cogs"}

\* The header after normalization and the rename of the first date column.
DateRenamed(cols) ==
  LET lowered == [i \in DOMAIN cols |-> NormalizeColumn(cols[i])]
      date_cols == SelectSeq(lowered, HasDate)
  IN  IF date_cols = <<>> THEN lowered
      ELSE [i \in DOMAIN lowered |->
              IF lowered[i] = date_cols[1] THEN "date" ELSE lowered[i]]

\* rename(columns=column_mapping) of clean_marketing_data.
column_mapping(col) ==
  CASE col = "impression"         -> "impressions"
    [] col = "attributed_revenue" -> "revenue"
    [] OTHER                      -> col

\* The value of column `name` in a cleaned row; 0 when the table has no such
\* column (combine_marketing_data adds a missing required column as 0).
Field(cols, row, name) == IF HasCol(cols, name) THEN row[ColIndex(cols, name)] ELSE 0

\* clean_marketing_data: raised is TRUE when dropna(subset=['date']) finds no
\* date column (KeyError); otherwise rows holds the cleaned rows, in input
\* order, as records.
clean_marketing_data(df, channel_name) ==
  LET renamed == DateRenamed(df.cols)
      numeric == {i \in DOMAIN renamed : renamed[i] \in marketing_numeric_cols}
      cols == [i \in DOMAIN renamed |-> column_mapping(renamed[i])]
      Clean(row) == [i \in DOMAIN row |->
                       IF renamed[i] = "date" THEN to_datetime(row[i])
                       ELSE IF i \in numeric THEN to_numeric_fillna(row[i])
                       ELSE row[i].v]
      Record(cleaned) == [date        |-> Field(cols, cleaned, "date"),
                          channel     |-> channel_name,
                          impressions |-> Field(cols, cleaned, "impressions"),
                          clicks      |-> Field(cols, cleaned, "clicks"),
                          spend       |-> Field(cols, cleaned, "spend"),
                          revenue     |-> Field(cols, cleaned, "revenue")]
      records == [i \in DOMAIN df.rows |-> Record(Clean(df.rows[i]))]
  IN  IF ~HasCol(cols, "date") THEN [raised |-> TRUE, rows |-> <<>>]
      ELSE [raised |-> FALSE,
            rows |-> SelectSeq(records, LAMBDA r : r.date # NaT)]

\* clean_business_data, likewise.
clean_business_data(df) ==
  LET renamed == DateRenamed(df.cols)
      numeric == {i \in DOMAIN renamed : renamed[i] \in business_numeric_cols}
      Clean(row) == [i \in DOMAIN row |->
                       IF renamed[i] = "date" THEN to_datetime(row[i])
                       ELSE IF i \in numeric THEN to_numeric_fillna(row[i])
                       ELSE row[i].v]
      Record(cleaned) ==
        [date          |-> Field(renamed, cleaned, "date"),
         total_revenue |-> Field(renamed, cleaned, "total_revenue")]
      records == [i \in DOMAIN df.rows |-> Record(Clean(df.rows[i]))]
  IN  IF ~HasCol(renamed, "date") THEN [raised |-> TRUE, rows |-> <<>>]
      ELSE [raised |-> FALSE,
            rows |-> SelectSeq(records, LAMBDA r : r.date # NaT)]

\* A concat that takes a table whose cleaning raised as an empty one.
ConcatCleanedSkippingRaised(facebook_clean, google_clean, tiktok_clean) ==
  [raised |-> FALSE,
   rows |-> facebook_clean.rows \o google_clean.rows \o tiktok_clean.rows]

\* pd.concat of the three cleaned tables, row-wise; a cleaning that raised
\* ends combine_marketing_data.
ConcatCleaned(facebook_clean, google_clean, tiktok_clean) ==
  IF facebook_clean.raised \/ google_clean.raised \/ tiktok_clean.raised
  THEN [raised |-> TRUE, rows |-> <<>>]
  ELSE [raised |-> FALSE,
        rows |-> facebook_clean.rows \o google_clean.rows \o tiktok_clean.rows]

combine_marketing_data(facebook_df, google_df, tiktok_df) ==
  ConcatCleaned(clean_marketing_data(facebook_df, "Facebook"),
                clean_marketing_data(google_df, "Google"),
                clean_marketing_data(tiktok_df, "TikTok"))

\* ---------------------------------------------------------- metric deriver
\* A deriver that clamps a ratio at 1.
SafeRatioClamped(num, den) ==
  IF den > 0 THEN (IF num > den THEN FromInt(1) ELSE Rat(num, den)) ELSE Zero

\* np.where(den > 0, num / den, 0)
SafeRatio(num, den) == IF den > 0 THEN Rat(num, den) ELSE Zero

\* create_derived_metrics: every row gains ctr, cpc, roas and cpm.
create_derived_metrics(df) ==
  [i \in DOMAIN df |->
     [date        |-> df[i].date,
      channel     |-> df[i].channel,
      impressions |-> df[i].impressions,
      clicks      |-> df[i].clicks,
      spend       |-> df[i].spend,
      revenue     |-> df[i].revenue,
      ctr         |-> SafeRatio(df[i].clicks, df[i].impressions),
      cpc         |-> SafeRatio(df[i].spend, df[i].clicks),
      roas        |-> SafeRatio(df[i].revenue, df[i].spend),
      cpm         |-> SafeRatio(df[i].spend * 1000, df[i].impressions)]]

\* ---------------------------------------------------------------- aggregator
\* An order of the channel values that puts Total before the platforms.
ChannelRankTotalFirst(channel) ==
  CASE channel = "0"        -> 0
    [] channel = "Total"    -> 1
    [] channel = "Facebook" -> 2
    [] channel = "Google"   -> 3
    [] channel = "TikTok"   -> 4

\* The order pandas sorts channel values in: a number (the 0 that fillna
\* writes into the channel column, modelled as "0") before any string, the
\* strings lexically.
ChannelRank(channel) ==
  CASE channel = "0"        -> 0
    [] channel = "Facebook" -> 1
    [] channel = "Google"   -> 2
    [] channel = "TikTok"   -> 3
    [] channel = "Total"    -> 4

\* The distinct channels of a table, in sorted order.
SortedChannels(df) ==
  LET ranks == Ascending({ChannelRank(df[i].channel) : i \in DOMAIN df})
  IN  [k \in DOMAIN ranks |->
         CHOOSE c \in Range(Column(df, "channel")) : ChannelRank(c) = ranks[k]]

\* The distinct dates of a table, ascending.
SortedDates(df) == Ascending(Range(Column(df, "date")))

\* A group whose ratios are taken from its sums.
ChannelGroupRatioOfSums(df, date, channel) ==
  LET g == SelectSeq(df, LAMBDA r : r.date = date /\ r.channel = channel)
      impressions == Sum(Column(g, "impressions"))
      clicks == Sum(Column(g, "clicks"))
      spend == Sum(Column(g, "spend"))
      revenue == Sum(Column(g, "revenue"))
  IN  [date        |-> date,
       channel     |-> channel,
       impressions |-> impressions,
       clicks      |-> clicks,
       spend       |-> spend,
       revenue     |-> revenue,
       ctr         |-> SafeRatio(clicks, impressions),
       cpc         |-> SafeRatio(spend, clicks),
       roas        |-> SafeRatio(revenue, spend),
       cpm         |-> SafeRatio(spend * 1000, impressions)]

\* groupby(['date', 'channel']).agg(sum ..., mean ...): one group.
ChannelGroup(df, date, channel) ==
  LET g == SelectSeq(df, LAMBDA r : r.date = date /\ r.channel = channel)
  IN  [date        |-> date,
       channel     |-> channel,
       impressions |-> Sum(Column(g, "impressions")),
       clicks      |-> Sum(Column(g, "clicks")),
       spend       |-> Sum(Column(g, "spend")),
       revenue     |-> Sum(Column(g, "revenue")),
       ctr         |-> RMean(Column(g, "ctr")),
       cpc         |-> RMean(Column(g, "cpc")),
       roas        |-> RMean(Column(g, "roas")),
       cpm         |-> RMean(Column(g, "cpm"))]

\* groupby('date').agg(sum ...): one group, before its metrics are derived.
DateGroup(df, date) ==
  LET g == SelectSeq(df, LAMBDA r : r.date = date)
  IN  [date        |-> date,
       channel     |-> "Total",
       impressions |-> Sum(Column(g, "impressions")),
       clicks      |-> Sum(Column(g, "clicks")),
       spend       |-> Sum(Column(g, "spend")),
       revenue     |-> Sum(Column(g, "revenue"))]

\* A Total row whose roas is aggregated like the channel rows' ('mean').
TotalRowMeanRoas(df, date) ==
  [create_derived_metrics(<<DateGroup(df, date)>>)[1] EXCEPT
     !.roas = RMean(Column(SelectSeq(df, LAMBDA r : r.date = date), "roas"))]

\* The Total row of one date: the group's sums, then
\* create_derived_metrics(daily_total) and the channel 'Total'.
TotalRow(df, date) == create_derived_metrics(<<DateGroup(df, date)>>)[1]

aggregate_daily_marketing(marketing_df) ==
  LET dates == SortedDates(marketing_df)
      channels == SortedChannels(marketing_df)
      OfDate(d) ==
        LET present == SelectSeq(channels, LAMBDA c :
                         \E i \in DOMAIN marketing_df :
                           marketing_df[i].date = d /\ marketing_df[i].channel = c)
        IN  [k \in DOMAIN present |-> ChannelGroup(marketing_df, d, present[k])]
      daily_marketing == Concat([k \in DOMAIN dates |-> OfDate(dates[k])])
      daily_total == [k \in DOMAIN dates |-> TotalRow(marketing_df, dates[k])]
  IN  daily_marketing \o daily_total

\* -------------------------------------------------------------------- merger
\* One row of the outer join: the marketing side m and the business side b,
\* either of which may be absent (<<>>); fillna(0) writes 0 into every value
\* the join left missing.
MergedRow(date, m, b) ==
  [date          |-> date,
   channel       |-> IF m = <<>> THEN "0" ELSE m[1].channel,
   impressions   |-> IF m = <<>> THEN 0 ELSE m[1].impressions,
   clicks        |-> IF m = <<>> THEN 0 ELSE m[1].clicks,
   spend         |-> IF m = <<>> THEN 0 ELSE m[1].spend,
   revenue       |-> IF m = <<>> THEN 0 ELSE m[1].revenue,
   ctr           |-> IF m = <<>> THEN Zero ELSE m[1].ctr,
   cpc           |-> IF m = <<>> THEN Zero ELSE m[1].cpc,
   roas          |-> IF m = <<>> THEN Zero ELSE m[1].roas,
   cpm           |-> IF m = <<>> THEN Zero ELSE m[1].cpm,
   total_revenue |-> IF b = <<>> THEN 0 ELSE b[1].total_revenue]

\* The rows of one date in the merged, sorted table: the date's marketing
\* rows by channel, each paired with every business row of the date.
MergedDate(marketing_daily, business_clean, date) ==
  LET ms == SelectSeq(marketing_daily, LAMBDA r : r.date = date)
      bs == SelectSeq(business_clean, LAMBDA r : r.date = date)
      channels == SortedChannels(ms)
      OfChannel(c) ==
        LET m == SelectSeq(ms, LAMBDA r : r.channel = c)
        IN  IF bs = <<>> THEN <<MergedRow(date, <<m[1]>>, <<>>)>>
            ELSE [j \in DOMAIN bs |-> MergedRow(date, <<m[1]>>, <<bs[j]>>)]
  IN  IF ms = <<>> THEN [j \in DOMAIN bs |-> MergedRow(date, <<>>, <<bs[j]>>)]
      ELSE Concat([k \in DOMAIN channels |-> OfChannel(channels[k])])

\* The same with how='left': only the dates of the marketing side.
LeftMergeSorted(marketing_daily, business_clean) ==
  LET dates == Ascending(Range(Column(marketing_daily, "date")))
  IN  Concat([k \in DOMAIN dates |->
                MergedDate(marketing_daily, business_clean, dates[k])])

\* marketing_daily.merge(business_clean, on='date', how='outer'), fillna(0),
\* sort_values(['date', 'channel']).
OuterMergeSorted(marketing_daily, business_clean) ==
  LET dates == Ascending(Range(Column(marketing_daily, "date"))
                         \cup Range(Column(business_clean, "date")))
  IN  Concat([k \in DOMAIN dates |->
                MergedDate(marketing_daily, business_clean, dates[k])])

\* The merge, given the cleaned business table.
MergeCleaned(marketing_daily, business_clean) ==
  IF business_clean.raised THEN [raised |-> TRUE, rows |-> <<>>]
  ELSE [raised |-> FALSE,
        rows |-> OuterMergeSorted(marketing_daily, business_clean.rows)]

merge_marketing_business(marketing_daily, business_df) ==
  MergeCleaned(marketing_daily, clean_business_data(business_df))

\* ------------------------------------------------------------------ pipeline
\* The result dict of process_all_data; a table is <<>> for None and
\* <<table>> otherwise.  with_metrics is the local marketing_with_metrics,
\* kept beside the returned tables; date_range is left out.
Failure(error) ==
  [success |-> FALSE, error |-> error, marketing_raw |-> <<>>,
   with_metrics |-> <<>>, marketing_daily |-> <<>>, final_dataset |-> <<>>,
   total_days |-> 0]

\* A step 4 that, when the merge raises, hands back the tables of the
\* steps before it.
ProcessStep4KeepingTables(marketing_combined, marketing_with_metrics, daily_marketing, merged) ==
  IF merged.raised
  THEN [Failure("KeyError: ['date']") EXCEPT
          !.marketing_raw = <<marketing_combined>>,
          !.marketing_daily = <<daily_marketing>>]
  ELSE [success |-> TRUE, error |-> None,
        marketing_raw |-> <<marketing_combined>>,
        with_metrics |-> <<marketing_with_metrics>>,
        marketing_daily |-> <<daily_marketing>>,
        final_dataset |-> <<merged.rows>>,
        total_days |-> Cardinality(Range(Column(merged.rows, "date")))]

\* Step 4 of process_all_data and its return.
ProcessStep4(marketing_combined, marketing_with_metrics, daily_marketing, merged) ==
  IF merged.raised THEN Failure("KeyError: ['date']")
  ELSE [success |-> TRUE, error |-> None,
        marketing_raw |-> <<marketing_combined>>,
        with_metrics |-> <<marketing_with_metrics>>,
        marketing_daily |-> <<daily_marketing>>,
        final_dataset |-> <<merged.rows>>,
        total_days |-> Cardinality(Range(Column(merged.rows, "date")))]

\* Step 3.
ProcessStep3(marketing_combined, marketing_with_metrics, daily_marketing, business_df) ==
  ProcessStep4(marketing_combined, marketing_with_metrics, daily_marketing,
               merge_marketing_business(daily_marketing, business_df))

\* Step 2.
ProcessStep2(marketing_combined, marketing_with_metrics, business_df) ==
  ProcessStep3(marketing_combined, marketing_with_metrics,
               aggregate_daily_marketing(marketing_with_metrics), business_df)

\* Step 1, after combine_marketing_data returned or raised.
ProcessStep1(combined, business_df) ==
  IF combined.raised THEN Failure("KeyError: ['date']")
  ELSE ProcessStep2(combined.rows, create_derived_metrics(combined.rows),
                    business_df)

process_all_data(facebook_df, google_df, tiktok_df, business_df) ==
  ProcessStep1(combine_marketing_data(facebook_df, google_df, tiktok_df),
               business_df)

\* ----------------------------------------------------------------- analytics
\* A summary that does not filter the Total rows out.
ChannelSummaryWithTotal(data) ==
  LET channels == SortedChannels(data)
      Row(c) ==
        LET g == SelectSeq(data, LAMBDA r : r.channel = c)
            spend == Sum(Column(g, "spend"))
            revenue == Sum(Column(g, "revenue"))
            impressions == Sum(Column(g, "impressions"))
            clicks == Sum(Column(g, "clicks"))
        IN  [channel     |-> c,
             spend       |-> spend,
             revenue     |-> revenue,
             impressions |-> impressions,
             clicks      |-> clicks,
             roas        |-> SafeRatio(revenue, spend),
             ctr         |-> SafeRatio(clicks, impressions),
             cpc         |-> SafeRatio(spend, clicks),
             cpm         |-> SafeRatio(spend * 1000, impressions)]
  IN  [k \in DOMAIN channels |-> Row(channels[k])]

\* channel_data.groupby('channel').agg(sum ...) and the derived metrics of
\* calculate_channel_performance, before the final sort: one row per
\* channel other than Total, in sorted channel order.
ChannelSummary(data) ==
  LET channel_data == SelectSeq(data, LAMBDA r : r.channel # "Total")
      channels == SortedChannels(channel_data)
      Row(c) ==
        LET g == SelectSeq(channel_data, LAMBDA r : r.channel = c)
            spend == Sum(Column(g, "spend"))
            revenue == Sum(Column(g, "revenue"))
            impressions == Sum(Column(g, "impressions"))
            clicks == Sum(Column(g, "clicks"))
        IN  [channel     |-> c,
             spend       |-> spend,
             revenue     |-> revenue,
             impressions |-> impressions,
             clicks      |-> clicks,
             roas        |-> SafeRatio(revenue, spend),
             ctr         |-> SafeRatio(clicks, impressions),
             cpc         |-> SafeRatio(spend, clicks),
             cpm         |-> SafeRatio(spend * 1000, impressions)]
  IN  [k \in DOMAIN channels |-> Row(channels[k])]

\* The orders of 1..n in which position i comes before position j.
Arrangements(n) ==
  {p \in [1..n -> 1..n] : \A i, j \in 1..n : i # j => p[i] # p[j]}

\* df.sort_values('spend'): ascending.
sort_values_spend_ascending(df) ==
  {[i \in DOMAIN df |-> df[p[i]]] : p \in
     {q \in Arrangements(Len(df)) :
        \A i, j \in DOMAIN df : i < j => df[q[i]].spend <= df[q[j]].spend}}

\* df.sort_values('spend', ascending=False) with the default kind
\* ('quicksort', which pandas documents as not stable): every arrangement
\* of the rows with no smaller spend before a larger one.
sort_values_spend_descending(df) ==
  {[i \in DOMAIN df |-> df[p[i]]] : p \in
     {q \in Arrangements(Len(df)) :
        \A i, j \in DOMAIN df : i < j => df[q[i]].spend >= df[q[j]].spend}}

\* calculate_channel_performance: the tables it may return.
calculate_channel_performance(data) ==
  sort_values_spend_descending(ChannelSummary(data))

\* An roi improvement that divides by every amount but 0.
RoiImprovementNonZero(net_gain, reallocation_amount) ==
  IF reallocation_amount # Zero THEN RDiv(net_gain, reallocation_amount) ELSE Zero

\* (net_gain / reallocation_amount) if reallocation_amount > 0 else 0
RoiImprovement(net_gain, reallocation_amount) ==
  IF RLess(Zero, reallocation_amount)
  THEN RDiv(net_gain, reallocation_amount) ELSE Zero

\* df[['channel', 'roas', 'spend']].to_dict('records')
ChannelRecords(df) ==
  [i \in DOMAIN df |->
     [channel |-> df[i].channel, roas |-> df[i].roas, spend |-> df[i].spend]]

\* The mappings calculate_budget_optimization_opportunities may return for a
\* channel table: sort_values('roas', ascending=False) has the default sort
\* kind, so channels of equal roas come in any order.
BudgetOpportunities(channel_perf) ==
  IF Len(channel_perf) < 2 THEN {<<>>}
  ELSE
    {LET sorted_channels == [i \in DOMAIN channel_perf |-> channel_perf[p[i]]]
         top_performer == sorted_channels[1]
         bottom_performer == sorted_channels[Len(sorted_channels)]
         reallocation_amount == RMul(FromInt(bottom_performer.spend), Rat(1, 5))
         projected_revenue_gain == RMul(reallocation_amount, top_performer.roas)
         projected_revenue_loss == RMul(reallocation_amount, bottom_performer.roas)
         net_gain == RAdd(projected_revenue_gain,
                          RMul(FromInt(0 - 1), projected_revenue_loss))
     IN  [reallocation |->
            [from_channel       |-> bottom_performer.channel,
             to_channel         |-> top_performer.channel,
             amount             |-> reallocation_amount,
             projected_net_gain |-> net_gain,
             roi_improvement    |-> RoiImprovement(net_gain, reallocation_amount)],
          scale_up |->
            ChannelRecords(SelectSeq(channel_perf,
                                     LAMBDA r : RLess(FromInt(3), r.roas))),
          optimize |->
            ChannelRecords(SelectSeq(channel_perf,
                                     LAMBDA r : RLess(r.roas, FromInt(2))))] :
       p \in {q \in Arrangements(Len(channel_perf)) :
                \A i, j \in DOMAIN channel_perf :
                  i < j => RLeq(channel_perf[q[j]].roas, channel_perf[q[i]].roas)}}

\* A grading in which a score on a threshold falls to the lower grade.
get_performance_grade_above(score) ==
  CASE RLess(FromInt(90), score) -> "A+"
    [] RLess(FromInt(80), score) -> "A"
    [] RLess(FromInt(70), score) -> "B+"
    [] RLess(FromInt(60), score) -> "B"
    [] RLess(FromInt(50), score) -> "C"
    [] OTHER -> "D"

\* _get_performance_grade: the first threshold the score reaches.
_get_performance_grade(score) ==
  CASE RLeq(FromInt(90), score) -> "A+"
    [] RLeq(FromInt(80), score) -> "A"
    [] RLeq(FromInt(70), score) -> "B+"
    [] RLeq(FromInt(60), score) -> "B"
    [] RLeq(FromInt(50), score) -> "C"
    [] OTHER -> "D"

\* calculate_efficiency_benchmarks for a channel table: a mapping from the
\* channels to their scores (benchmarks: roas 3.0, ctr 0.02, cpc 2.0).
EfficiencyBenchmarks(channel_perf) ==
  IF channel_perf = <<>> THEN <<>>
  ELSE
    LET min100(x) == IF RLess(FromInt(100), x) THEN FromInt(100) ELSE x
        max01(x) == IF RLess(x, Rat(1, 10)) THEN Rat(1, 10) ELSE x
        Result(row) ==
          LET roas_vs == RDiv(row.roas, FromInt(3))
              ctr_vs == RDiv(row.ctr, Rat(2, 100))
              cpc_vs == RDiv(FromInt(2), max01(row.cpc))
              roas_score == min100(RMul(roas_vs, FromInt(100)))
              ctr_score == min100(RMul(ctr_vs, FromInt(100)))
              cpc_score == min100(RMul(cpc_vs, FromInt(100)))
              efficiency_score ==
                RAdd(RAdd(RMul(roas_score, Rat(5, 10)), RMul(ctr_score, Rat(3, 10))),
                     RMul(cpc_score, Rat(2, 10)))
          IN  [efficiency_score  |-> efficiency_score,
               roas_vs_benchmark |-> roas_vs,
               ctr_vs_benchmark  |-> ctr_vs,
               cpc_vs_benchmark  |-> cpc_vs,
               performance_grade |-> _get_performance_grade(efficiency_score)]
    IN  [c \in Range(Column(channel_perf, "channel")) |->
           Result(CHOOSE row \in Range(channel_perf) : row.channel = c)]

\* A business impact whose attribution rate is capped at 100.
calculate_business_impact_capped(data) ==
  LET total_data == SelectSeq(data, LAMBDA r : r.channel = "Total")
      total_marketing_spend == Sum(Column(total_data, "spend"))
      total_attributed_revenue == Sum(Column(total_data, "revenue"))
      total_business_revenue == Sum(Column(total_data, "total_revenue"))
  IN  [total_marketing_spend    |-> total_marketing_spend,
       total_attributed_revenue |-> total_attributed_revenue,
       total_business_revenue   |-> total_business_revenue,
       attribution_rate |->
         IF total_business_revenue > 0
         THEN (IF total_attributed_revenue > total_business_revenue
               THEN FromInt(100)
               ELSE Rat(total_attributed_revenue * 100, total_business_revenue))
         ELSE Zero,
       overall_roas |->
         IF total_marketing_spend > 0
         THEN Rat(total_attributed_revenue, total_marketing_spend)
         ELSE Zero,
       avg_daily_spend |->
         IF Len(total_data) > 0
         THEN Rat(total_marketing_spend, Len(total_data)) ELSE Zero,
       avg_daily_revenue |->
         IF Len(total_data) > 0
         THEN Rat(total_attributed_revenue, Len(total_data)) ELSE Zero,
       data_period_days |-> Len(total_data)]

\* calculate_business_impact
calculate_business_impact(data) ==
  LET total_data == SelectSeq(data, LAMBDA r : r.channel = "Total")
      total_marketing_spend == Sum(Column(total_data, "spend"))
      total_attributed_revenue == Sum(Column(total_data, "revenue"))
      total_business_revenue == Sum(Column(total_data, "total_revenue"))
  IN  [total_marketing_spend    |-> total_marketing_spend,
       total_attributed_revenue |-> total_attributed_revenue,
       total_business_revenue   |-> total_business_revenue,
       attribution_rate |->
         IF total_business_revenue > 0
         THEN Rat(total_attributed_revenue * 100, total_business_revenue)
         ELSE Zero,
       overall_roas |->
         IF total_marketing_spend > 0
         THEN Rat(total_attributed_revenue, total_marketing_spend)
         ELSE Zero,
       avg_daily_spend |->
         IF Len(total_data) > 0
         THEN Rat(total_marketing_spend, Len(total_data)) ELSE Zero,
       avg_daily_revenue |->
         IF Len(total_data) > 0
         THEN Rat(total_attributed_revenue, Len(total_data)) ELSE Zero,
       data_period_days |-> Len(total_data)]

\* The window of the rolling averages of calculate_daily_trends.
Window == 7

\* A rolling mean over every row so far (an expanding window).
RollingMeanExpanding(column, i) ==
  RMean([k \in 1..i |-> column[k]])

\* Series.rolling(window=7, min_periods=1).mean() at position i: the mean of
\* the value at i and of up to Window - 1 values before it.
RollingMean(column, i) ==
  LET first == IF i > Window THEN i - Window + 1 ELSE 1
  IN  RMean([k \in 1..(i - first + 1) |-> column[first + k - 1]])

\* The rows of a table as whole numbers turned into ratios.
Ratios(column) == [k \in DOMAIN column |-> FromInt(column[k])]

\* sort_values('date') with the default sort kind: the dates ascending, the
\* rows of one date in any order.
RECURSIVE SortedByDate(_, _)
SortedByDate(df, dates) ==
  IF dates = <<>> THEN {<<>>}
  ELSE LET g == SelectSeq(df, LAMBDA r : r.date = Head(dates))
       IN  {[i \in DOMAIN g |-> g[p[i]]] \o rest :
              p \in Arrangements(Len(g)), rest \in SortedByDate(df, Tail(dates))}

\* The three rolling averages of a sorted table of Total rows.
WithRollingAverages(daily_trends) ==
  [i \in DOMAIN daily_trends |->
     daily_trends[i] @@
       [spend_7d_avg   |-> RollingMean(Ratios(Column(daily_trends, "spend")), i),
        roas_7d_avg    |-> RollingMean(Column(daily_trends, "roas"), i),
        revenue_7d_avg |-> RollingMean(Ratios(Column(daily_trends, "revenue")), i)]]

\* calculate_daily_trends: the tables it may return.
calculate_daily_trends(data) ==
  LET total == SelectSeq(data, LAMBDA r : r.channel = "Total")
  IN  {WithRollingAverages(sorted) : sorted \in SortedByDate(total, SortedDates(total))}

\* Series.dt.day_name(): the days are numbered from a Monday.
DayNames ==
  <<"Monday", "Tuesday", "Wednesday", "Thursday", "Friday", "Saturday", "Sunday">>
day_name(date) == DayNames[((date - 1) % 7) + 1]

\* The group keys of groupby('day_of_week'), which sorts them as text.
DayNamesSorted ==
  <<"Friday", "Monday", "Saturday", "Sunday", "Thursday", "Tuesday", "Wednesday">>

\* idxmax and idxmin of a column of ratios: the first position holding the
\* largest, the smallest value.
idxmax(column) ==
  CHOOSE i \in DOMAIN column :
    /\ \A j \in DOMAIN column : RLeq(column[j], column[i])
    /\ \A j \in 1..(i - 1) : RLess(column[j], column[i])
idxmin(column) ==
  CHOOSE i \in DOMAIN column :
    /\ \A j \in DOMAIN column : RLeq(column[i], column[j])
    /\ \A j \in 1..(i - 1) : RLess(column[i], column[j])

\* groupby('day_of_week').agg(mean of spend, revenue, roas).reset_index().
DowPerformance(daily_data) ==
  LET present == SelectSeq(DayNamesSorted,
                   LAMBDA n : \E i \in DOMAIN daily_data :
                                day_name(daily_data[i].date) = n)
  IN  [k \in DOMAIN present |->
         LET g == SelectSeq(daily_data,
                            LAMBDA r : day_name(r.date) = present[k])
         IN  [day_of_week |-> present[k],
              spend   |-> RMean(Ratios(Column(g, "spend"))),
              revenue |-> RMean(Ratios(Column(g, "revenue"))),
              roas    |-> RMean(Column(g, "roas"))]]

\* The mapping calculate_seasonal_patterns returns for a month or more.
SeasonalPatterns(dow_performance) ==
  LET best_day == dow_performance[idxmax(Column(dow_performance, "roas"))]
      worst_day == dow_performance[idxmin(Column(dow_performance, "roas"))]
  IN  [best_day  |-> [day |-> best_day.day_of_week, avg_roas |-> best_day.roas,
                      avg_spend |-> best_day.spend],
       worst_day |-> [day |-> worst_day.day_of_week, avg_roas |-> worst_day.roas,
                      avg_spend |-> worst_day.spend],
       dow_performance |-> dow_performance]

\* Seasonal patterns that ask for more than 30 days.
calculate_seasonal_patterns_over_30(data) ==
  LET daily_data == SelectSeq(data, LAMBDA r : r.channel = "Total")
  IN  IF Len(daily_data) <= 30 THEN <<>>
      ELSE SeasonalPatterns(DowPerformance(daily_data))

\* calculate_seasonal_patterns: the empty mapping under 30 Total rows.
calculate_seasonal_patterns(data) ==
  LET daily_data == SelectSeq(data, LAMBDA r : r.channel = "Total")
  IN  IF Len(daily_data) < 30 THEN <<>>
      ELSE SeasonalPatterns(DowPerformance(daily_data))

\* The ratios of a sequence, ascending.
RECURSIVE RSorted(_)
RSorted(ratios) ==
  IF ratios = <<>> THEN <<>>
  ELSE LET m == CHOOSE i \in DOMAIN ratios :
                  \A j \in DOMAIN ratios : RLeq(ratios[i], ratios[j])
       IN  <<ratios[m]>> \o
           RSorted([k \in 1..(Len(ratios) - 1) |->
                      IF k < m THEN ratios[k] ELSE ratios[k + 1]])

\* Series.median() of a non-empty column.
Median(ratios) ==
  LET sorted == RSorted(ratios)
      n == Len(sorted)
  IN  IF n % 2 = 1 THEN sorted[(n + 1) \div 2]
      ELSE RDiv(RAdd(sorted[n \div 2], sorted[n \div 2 + 1]), FromInt(2))

\* The row the 'Top Performer' insight reports: channel_perf.iloc[0].
top_channel(channel_perf) == channel_perf[1]

\* Each rule of get_performance_insights: <<>> when it does not fire,
\* <<insight>> when it does.  An insight keeps the channels its text names
\* and the amount its 'impact' text shows (Zero when the text has none).
TopPerformerRule(channel_perf) ==
  IF channel_perf = <<>> THEN <<>>
  ELSE <<[type     |-> "Top Performer",
          priority |-> "High",
          channels |-> <<top_channel(channel_perf).channel>>,
          impact   |-> RMul(Rat(top_channel(channel_perf).spend * 2, 10),
                            top_channel(channel_perf).roas)]>>

OptimizationRule(channel_perf) ==
  LET low_roas_channels ==
        SelectSeq(channel_perf, LAMBDA r : RLess(r.roas, FromInt(2)))
  IN  IF low_roas_channels = <<>> THEN <<>>
      ELSE <<[type     |-> "Optimization Opportunity",
              priority |-> "High",
              channels |-> Column(low_roas_channels, "channel"),
              impact   |-> Rat(Sum(Column(low_roas_channels, "spend")) * 15,
                               100)]>>

ConversionRule(channel_perf) ==
  LET high_ctr_low_roas ==
        IF channel_perf = <<>> THEN <<>>
        ELSE SelectSeq(channel_perf, LAMBDA r :
               /\ RLess(Median(Column(channel_perf, "ctr")), r.ctr)
               /\ RLess(r.roas, Median(Column(channel_perf, "roas"))))
  IN  IF high_ctr_low_roas = <<>> THEN <<>>
      ELSE <<[type     |-> "Conversion Optimization",
              priority |-> "Medium",
              channels |-> <<high_ctr_low_roas[1].channel>>,
              impact   |-> Zero]>>

AttributionRule(business_metrics) ==
  IF RLess(business_metrics.attribution_rate, FromInt(15))
  THEN <<[type     |-> "Attribution Gap",
          priority |-> "Medium",
          channels |-> <<>>,
          impact   |-> Zero]>>
  ELSE <<>>

\* top_channel_share > 0.6, where the share is a float division: x/0 is inf
\* for x > 0, nan or -inf otherwise.
ShareExceeds(top_spend, total_spend) ==
  IF total_spend = 0 THEN top_spend > 0
  ELSE RLess(Rat(6, 10), Rat(top_spend, total_spend))

PortfolioRule(channel_perf) ==
  IF channel_perf = <<>> THEN <<>>
  ELSE IF ShareExceeds(channel_perf[1].spend, Sum(Column(channel_perf, "spend")))
  THEN <<[type     |-> "Portfolio Risk",
          priority |-> "Medium",
          channels |-> <<channel_perf[1].channel>>,
          impact   |-> Zero]>>
  ELSE <<>>

\* The rules in another order: the attribution check first.
get_performance_insights_attribution_first(channel_perf, business_metrics) ==
  LET insights == AttributionRule(business_metrics)
                    \o TopPerformerRule(channel_perf)
                    \o OptimizationRule(channel_perf)
                    \o ConversionRule(channel_perf)
                    \o PortfolioRule(channel_perf)
  IN  IF Len(insights) <= 5 THEN insights ELSE SubSeq(insights, 1, 5)

\* get_performance_insights, given the tables its two calls returned.
get_performance_insights(channel_perf, business_metrics) ==
  LET insights == TopPerformerRule(channel_perf)
                    \o OptimizationRule(channel_perf)
                    \o ConversionRule(channel_perf)
                    \o AttributionRule(business_metrics)
                    \o PortfolioRule(channel_perf)
  IN  IF Len(insights) <= 5 THEN insights ELSE SubSeq(insights, 1, 5)

\* --------------------------------------------------------------------- state
VARIABLES
  folder_exists,   \* whether the data folder exists
  listing,         \* os.listdir(data_folder), in the order it lists the files
  disk,            \* per listed file: whether read_csv parses it, and its table
  pc,              \* the position of load_and_process_data
  data_files,      \* returned by load_csv_files
  load_error,      \* returned by load_csv_files
  validation,      \* returned by validate_data_files
  result,          \* returned by process_all_data
  ret,             \* returned by load_and_process_data: <<result or None, error>>
  processor,       \* the fields of the MarketPulseDataProcessor instance
  again,           \* returned by a second process_all_data on that instance
  self_data,       \* MarketingAnalytics.data: <<>> before construction
  out,             \* the last analytics call, and what it returned
  session_state,   \* st.session_state: current_page and processed_data
  page             \* the page of the last render, and how the render ended

vars == <<folder_exists, listing, disk, pc, data_files, load_error, validation,
          result, ret, processor, again, self_data, out, session_state, page>>

\* --------------------------------------------------------------- the inputs
\* The file names a data folder may hold.
FacebookCsv == <<"Facebook", ".csv">>
GoogleCsv   == <<"Google", ".csv">>
TikTokCsv   == <<"TikTok", ".csv">>
BusinessCsv == <<"Business", ".csv">>
FileNames ==
  {FacebookCsv, GoogleCsv, TikTokCsv, BusinessCsv,
   <<"facebook", "_", "google", ".csv">>, <<"tiktok", ".txt">>,
   <<"notes", ".CSV">>}

\* The four files the dashboard asks for (app.py), in directory order.
CanonicalListing == <<BusinessCsv, FacebookCsv, GoogleCsv, TikTokCsv>>

\* The headers of the feeds (the platforms name their columns differently).
MarketingCols(file) ==
  IF Contains("facebook", LowerName(file))
  THEN <<"Date", "Impression", "Clicks", "Spend", "Attributed Revenue">>
  ELSE <<"date", "impressions", "clicks", "spend", "attributed_revenue">>
BusinessCols == <<"Date", "Total Revenue">>

MarketingRow(date_cell, impressions, clicks, spend, revenue) ==
  <<date_cell, Num(impressions), Num(clicks), Num(spend), Num(revenue)>>
BusinessRow(date_cell, total_revenue) == <<date_cell, Num(total_revenue)>>

MarketingTable(file, rows) == [cols |-> MarketingCols(file), rows |-> rows]
BusinessTable(rows) == [cols |-> BusinessCols, rows |-> rows]

\* The business table when the marketing tables are what varies.
DefaultBusinessRows == <<BusinessRow(Day(1), 20)>>

\* What each file holds when the folder itself is what varies.
DefaultTable(file) ==
  CASE file = FacebookCsv -> MarketingTable(file, <<MarketingRow(Day(1), 2, 1, 2, 1)>>)
    [] file = GoogleCsv   -> MarketingTable(file, <<MarketingRow(Day(1), 1, 0, 1, 2)>>)
    [] file = TikTokCsv   -> MarketingTable(file, <<MarketingRow(Day(2), 1, 1, 0, 0)>>)
    [] file = BusinessCsv -> BusinessTable(DefaultBusinessRows)
    [] OTHER              -> MarketingTable(file, <<MarketingRow(Day(2), 1, 1, 2, 1)>>)

OnDisk(file, table) == [parses |-> TRUE, table |-> table]

\* A date cell: a date literal of one of the days, or text that is no date.
DateCells == {Day(d) : d \in Days} \cup {Text}
\* The values of a numeric cell.
Vals == (0 - 1)..MaxVal

\* The rows of the multi-row tables: one impression, at most one click.
PlainRows ==
  {MarketingRow(Day(d), 1, c, s, r) :
     d \in Days, c \in 0..1, s \in 0..MaxVal, r \in {0, MaxVal}}
\* The rows of the third platform when the other two vary.
ThirdRows ==
  {MarketingRow(Day(1), 1, c, 1, r) : c \in 0..1, r \in {0, MaxVal}}

\* The rows of a business table.
BusinessRows ==
  {BusinessRow(dc, t) : dc \in DateCells \cup {Day(3)}, t \in {0, 1, 20}}

NotValidated == [is_valid |-> FALSE, message |-> None, missing |-> <<>>]
NotProcessed == Failure(None)
\* The value of an analytics call: raised is TRUE when the method raised;
\* channel_perf and business_metrics hold the tables the method computed
\* The 'recommendation' text of an insight: fixed per rule, but for the
\* channel name the Top Performer text holds.
recommendation(insight) ==
  CASE insight.type = "Top Performer" ->
         <<"Consider scaling ", insight.channels[1],
           " budget by 15-20% to maximize returns">>
    [] insight.type = "Optimization Opportunity" ->
         <<"Review targeting, creative assets, or consider reducing spend by 15%">>
    [] insight.type = "Conversion Optimization" ->
         <<"Optimize landing pages, improve offer relevance, or adjust attribution windows">>
    [] insight.type = "Attribution Gap" ->
         <<"Implement view-through conversions, extend attribution windows, or improve tracking">>
    [] insight.type = "Portfolio Risk" ->
         <<"Diversify marketing mix to reduce platform dependency and discover new growth channels">>

\* generate_executive_summary, given what its three calls returned.
generate_executive_summary(business_metrics, channel_perf, insights) ==
  LET overall_roas == business_metrics.overall_roas
      high_priority_insights == SelectSeq(insights, LAMBDA i : i.priority = "High")
      FirstUpTo(seq, n) == IF Len(seq) <= n THEN seq ELSE SubSeq(seq, 1, n)
      top == FirstUpTo(high_priority_insights, 3)
  IN  [performance_status |->
         IF RLess(FromInt(4), overall_roas) THEN "Excellent"
         ELSE IF RLess(Rat(25, 10), overall_roas) THEN "Good"
         ELSE "Needs Improvement",
       overall_roas     |-> overall_roas,
       attribution_rate |-> business_metrics.attribution_rate,
       total_spend      |-> business_metrics.total_marketing_spend,
       total_revenue    |-> business_metrics.total_attributed_revenue,
       top_channel      |-> IF channel_perf # <<>> THEN channel_perf[1].channel
                            ELSE "N/A",
       top_recommendations |-> [k \in DOMAIN top |-> recommendation(top[k])],
       key_insights     |-> FirstUpTo(insights, 3)]

\* first, insights the list of get_performance_insights, value what any
\* other method returned.
Returned(op, channel_perf, business_metrics, insights, value) ==
  [op |-> op, raised |-> FALSE, channel_perf |-> channel_perf,
   business_metrics |-> business_metrics, insights |-> insights,
   value |-> value]
Raised(op, channel_perf, business_metrics) ==
  [op |-> op, raised |-> TRUE, channel_perf |-> channel_perf,
   business_metrics |-> business_metrics, insights |-> <<>>, value |-> <<>>]
NoCall == Returned(None, <<>>, <<>>, <<>>, <<>>)
\* __init__ of MarketPulseDataProcessor: no table kept yet.
NewProcessor == [marketing_combined |-> <<>>, final_dataset |-> <<>>]

\* The pages main routes to: Home, and the four pages of the pages folder.
OtherPages == {"Overview", "Channel Analysis", "Business Impact",
               "Business Intelligence"}
\* A new session: main sets current_page to Home, nothing is stored.
NewSession == [current_page |-> "Home", processed_data |-> <<>>]
\* The first render is the one of Home, and it is running.
HomeRunning == [name |-> "Home", outcome |-> "running"]

\* Nothing has run yet.
Fresh ==
  /\ pc = "start"
  /\ data_files = EmptyDataFiles
  /\ load_error = None
  /\ validation = NotValidated
  /\ result = NotProcessed
  /\ ret = [result |-> <<>>, error |-> None]
  /\ processor = NewProcessor
  /\ again = NotProcessed
  /\ self_data = <<>>
  /\ out = NoCall
  /\ session_state = NewSession
  /\ page = HomeRunning

\* The folder varies: absent, or any listing of at most MaxFiles distinct
\* files of which at most one does not parse.
InitFolder ==
  /\ Fresh
  /\ \/ /\ folder_exists = FALSE
        /\ listing = <<>>
        /\ disk = <<>>
     \/ /\ folder_exists = TRUE
        /\ listing \in {l \in SeqsUpTo(FileNames, MaxFiles) :
                          \A i, j \in DOMAIN l : i # j => l[i] # l[j]}
        /\ \E bad \in 0..Len(listing) :
             disk = [f \in Range(listing) |->
                       [parses |-> (bad = 0 \/ listing[bad] # f),
                        table |-> DefaultTable(f)]]

\* The four files are there and parse; their tables vary.
FourFiles(facebook_rows, google_rows, tiktok_rows, business_rows) ==
  /\ Fresh
  /\ folder_exists = TRUE
  /\ listing = CanonicalListing
  /\ disk = [f \in Range(CanonicalListing) |->
               CASE f = FacebookCsv -> OnDisk(f, MarketingTable(f, facebook_rows))
                 [] f = GoogleCsv   -> OnDisk(f, MarketingTable(f, google_rows))
                 [] f = TikTokCsv   -> OnDisk(f, MarketingTable(f, tiktok_rows))
                 [] f = BusinessCsv -> OnDisk(f, BusinessTable(business_rows))]

\* One marketing row in all, of any values.
InitSingleRow ==
  \E dc \in DateCells, i \in Vals, c \in Vals, s \in Vals, r \in Vals :
    FourFiles(<<MarketingRow(dc, i, c, s, r)>>, <<>>, <<>>,
              DefaultBusinessRows)

\* At most one row per platform.
InitRowPerSource ==
  \E f \in SeqsUpTo(PlainRows, 1), g \in SeqsUpTo(PlainRows, 1),
     t \in SeqsUpTo(ThirdRows, 1) :
    FourFiles(f, g, t, DefaultBusinessRows)

\* Two rows of one platform.
InitTwoRows ==
  \E rows \in [1..2 -> PlainRows] :
    FourFiles(<<>>, rows, <<>>, DefaultBusinessRows)

\* The business table varies.
InitBusiness ==
  \E b \in SeqsUpTo(BusinessRows, 2) :
    FourFiles(DefaultTable(FacebookCsv).rows, DefaultTable(GoogleCsv).rows,
              DefaultTable(TikTokCsv).rows, b)

\* The headers and the cells vary: a Facebook feed of two rows whose date
\* column may carry another name (with or without 'date' in it) and whose
\* cells may be text or missing, and a business table likewise.
InitColumns ==
  /\ Fresh
  /\ folder_exists = TRUE
  /\ listing = CanonicalListing
  /\ \E date_col \in {"Date", "Order Date", "Day"},
        business_date_col \in {"Date", "Day"},
        d1 \in DateCells \cup {Missing}, d2 \in DateCells \cup {Missing},
        c \in {Num(1), Text, Missing}, s \in {Num(2), Text},
        t \in {Num(20), Missing} :
       disk = [f \in Range(CanonicalListing) |->
                 CASE f = FacebookCsv ->
                        OnDisk(f, [cols |-> <<date_col, "Impression", "Clicks",
                                              "Spend", "Attributed Revenue">>,
                                   rows |-> <<<<d1, Num(1), c, s, Num(2)>>,
                                              <<d2, Num(1), Num(1), Num(1), Num(0)>>>>])
                   [] f = BusinessCsv ->
                        OnDisk(f, [cols |-> <<business_date_col, "Total Revenue">>,
                                   rows |-> <<<<Day(1), t>>>>])
                   [] OTHER -> OnDisk(f, DefaultTable(f))]

Init ==
  \/ InitFolder
  \/ InitSingleRow
  \/ InitRowPerSource
  \/ InitTwoRows
  \/ InitBusiness
  \/ InitColumns

\* ------------------------------------------------------------------- actions
\* load_and_process_data, step 1: load_csv_files, and the return on an error.
LoadCsvFiles ==
  /\ pc = "start"
  /\ session_state.current_page = "Home"
  /\ LET loaded == load_csv_files(folder_exists, listing, disk)
     IN  /\ data_files' = loaded.data_files
         /\ load_error' = loaded.error
         /\ IF loaded.error # None
            THEN /\ pc' = "done"
                 /\ ret' = [result |-> <<>>, error |-> loaded.error]
            ELSE /\ pc' = "loaded"
                 /\ ret' = ret
  /\ UNCHANGED <<folder_exists, listing, disk, validation, result, processor,
                 again, self_data, out, session_state, page>>

\* Step 2: validate_data_files, and the return when a source is missing.
ValidateDataFiles ==
  /\ pc = "loaded"
  /\ session_state.current_page = "Home"
  /\ LET v == validate_data_files(data_files)
     IN  /\ validation' = v
         /\ IF ~v.is_valid
            THEN /\ pc' = "done"
                 /\ ret' = [result |-> <<>>, error |-> v.message]
            ELSE /\ pc' = "validated"
                 /\ ret' = ret
  /\ UNCHANGED <<folder_exists, listing, disk, data_files, load_error, result,
                 processor, again, self_data, out, session_state, page>>

\* The fields of the processor instance after process_all_data returned r:
\* combine_marketing_data keeps the combined table (line 90) and
\* merge_marketing_business the merged one (line 155); a step that raised
\* keeps nothing.
ProcessorAfter(self, facebook_df, google_df, tiktok_df, r) ==
  IF r.success
  THEN [marketing_combined |-> r.marketing_raw,
        final_dataset |-> r.final_dataset]
  ELSE LET combined == combine_marketing_data(facebook_df, google_df, tiktok_df)
       IN  IF combined.raised THEN self
           ELSE [self EXCEPT !.marketing_combined = <<combined.rows>>]

\* Step 3: process_all_data on the four tables, and the final return.
ProcessAllData ==
  /\ pc = "validated"
  /\ session_state.current_page = "Home"
  /\ LET r == process_all_data(data_files["facebook"][1], data_files["google"][1],
                               data_files["tiktok"][1], data_files["business"][1])
     IN  /\ result' = r
         /\ processor' = ProcessorAfter(processor, data_files["facebook"][1],
                                        data_files["google"][1],
                                        data_files["tiktok"][1], r)
         /\ ret' = IF r.success THEN [result |-> <<r>>, error |-> None]
                   ELSE [result |-> <<>>, error |-> r.error]
  /\ pc' = "done"
  /\ UNCHANGED <<folder_exists, listing, disk, data_files, load_error,
                 validation, again, self_data, out, session_state, page>>

\* A second run that starts from the combined table the instance kept.
ProcessAllDataAgainAccumulating ==
  /\ pc = "done"
  /\ result # NotProcessed
  /\ LET combined == combine_marketing_data(data_files["facebook"][1],
                                            data_files["google"][1],
                                            data_files["tiktok"][1])
         kept == IF processor.marketing_combined = <<>> THEN <<>>
                 ELSE processor.marketing_combined[1]
         r == ProcessStep1([combined EXCEPT !.rows = kept \o combined.rows],
                           data_files["business"][1])
     IN  /\ again' = r
         /\ processor' = ProcessorAfter(processor, data_files["facebook"][1],
                                        data_files["google"][1],
                                        data_files["tiktok"][1], r)
  /\ pc' = "rerun"
  /\ UNCHANGED <<folder_exists, listing, disk, data_files, load_error,
                 validation, result, ret, self_data, out, session_state, page>>

\* process_all_data once more on the same processor instance and the same
\* four tables, after load_and_process_data returned.
ProcessAllDataAgain ==
  /\ pc = "done"
  /\ result # NotProcessed
  /\ LET r == process_all_data(data_files["facebook"][1], data_files["google"][1],
                               data_files["tiktok"][1], data_files["business"][1])
     IN  /\ again' = r
         /\ processor' = ProcessorAfter(processor, data_files["facebook"][1],
                                        data_files["google"][1],
                                        data_files["tiktok"][1], r)
  /\ pc' = "rerun"
  /\ UNCHANGED <<folder_exists, listing, disk, data_files, load_error,
                 validation, result, ret, self_data, out, session_state, page>>

\* What load_and_process_data works on.
loading == <<folder_exists, listing, disk, pc, data_files, load_error,
             validation, result, ret, processor, again>>
\* What no analytics call touches.
pipeline == <<loading, session_state, page>>

\* show_home_page after a successful load_and_process_data: it stores the
\* result in the session, and display_main_dashboard constructs
\* MarketingAnalytics(processed_data['final_dataset']).
NewMarketingAnalytics ==
  /\ pc = "done"
  /\ session_state.current_page = "Home"
  /\ ret.error = None
  /\ ret.result # <<>>
  /\ self_data = <<>>
  /\ session_state' = [session_state EXCEPT !.processed_data = ret.result]
  /\ self_data' = ret.result[1].final_dataset
  /\ UNCHANGED <<loading, page, out>>

\* show_home_page after a load_and_process_data that returned an error (or
\* no result): it shows the error and returns, storing nothing.
ShowHomePageError ==
  /\ pc = "done"
  /\ session_state.current_page = "Home"
  /\ ret.error # None \/ ret.result = <<>>
  /\ page = HomeRunning
  /\ page' = [name |-> "Home", outcome |-> "error"]
  /\ UNCHANGED <<loading, session_state, self_data, out>>

\* The button of Home: current_page becomes Home and the script reruns; the
\* steps of load_and_process_data follow (its cached return once it has
\* returned).
GoHome ==
  /\ session_state.current_page # "Home"
  /\ session_state' = [session_state EXCEPT !.current_page = "Home"]
  /\ page' = HomeRunning
  /\ UNCHANGED <<loading, self_data, out>>

\* A page that constructs the analytics whatever the session holds.
ShowOtherPageUnguarded ==
  \E p \in OtherPages :
    /\ session_state' = [session_state EXCEPT !.current_page = p]
    /\ page' = [name |-> p, outcome |-> "analytics"]
    /\ self_data' = IF session_state.processed_data = <<>> THEN <<<<>>>>
                    ELSE session_state.processed_data[1].final_dataset
    /\ IF pc \in {"start", "loaded", "validated"}
       THEN /\ pc' = "start"
            /\ data_files' = EmptyDataFiles
            /\ load_error' = None
            /\ validation' = NotValidated
            /\ UNCHANGED <<folder_exists, listing, disk, result, ret, processor,
                           again>>
       ELSE UNCHANGED loading
    /\ out' = out

\* The button of another page, and the render of that page: without a
\* stored processed_data it warns and stops, otherwise it constructs
\* MarketingAnalytics on the stored final dataset. The rerun ends a
\* load_and_process_data that has not returned yet; its locals are lost.
ShowOtherPage ==
  \E p \in OtherPages :
    /\ session_state' = [session_state EXCEPT !.current_page = p]
    /\ IF session_state.processed_data = <<>>
       THEN /\ page' = [name |-> p, outcome |-> "stopped"]
            /\ self_data' = self_data
       ELSE /\ page' = [name |-> p, outcome |-> "analytics"]
            /\ self_data' = session_state.processed_data[1].final_dataset
    /\ IF pc \in {"start", "loaded", "validated"}
       THEN /\ pc' = "start"
            /\ data_files' = EmptyDataFiles
            /\ load_error' = None
            /\ validation' = NotValidated
            /\ UNCHANGED <<folder_exists, listing, disk, result, ret, processor,
                           again>>
       ELSE UNCHANGED loading
    /\ out' = out

\* The table the methods of MarketingAnalytics read.
HasData == self_data # <<>>
Data == self_data[1]

\* A daily trend that filters the table of the object in place.
SelfDataAfterInPlace(op, data) ==
  IF op = "daily_trends" THEN SelectSeq(data, LAMBDA r : r.channel = "Total")
  ELSE data

\* self.data after a method returned: every method works on
\* self.data[...].copy() or on tables derived from it, and assigns to none
\* of self.data's columns.
SelfDataAfter(op, data) == data

\* str.join over the channel names raises TypeError when a name is the
\* number 0 that fillna wrote into the channel column.
JoinRaises(channels) == \E i \in DOMAIN channels : channels[i] = "0"
\* get_performance_insights raises when it joins the names of the low-ROAS
\* channels (line 118) and one of them is that number.
InsightsRaise(channel_perf) ==
  JoinRaises(Column(SelectSeq(channel_perf, LAMBDA r : RLess(r.roas, FromInt(2))),
                    "channel"))

CalculateChannelPerformance ==
  /\ HasData
  /\ \E channel_perf \in calculate_channel_performance(Data) :
       out' = Returned("channel_performance", <<channel_perf>>, <<>>, <<>>, <<>>)
  /\ self_data' = <<SelfDataAfter("channel_performance", Data)>>
  /\ UNCHANGED pipeline

\* A business impact whose period counts every row of the table.
CalculateBusinessImpactAllRows ==
  /\ HasData
  /\ out' = Returned("business_impact", <<>>,
                     <<[calculate_business_impact(Data) EXCEPT
                          !.data_period_days = Len(Data)]>>, <<>>, <<>>)
  /\ self_data' = <<SelfDataAfter("business_impact", Data)>>
  /\ UNCHANGED pipeline

CalculateBusinessImpact ==
  /\ HasData
  /\ out' = Returned("business_impact", <<>>,
                     <<calculate_business_impact(Data)>>, <<>>, <<>>)
  /\ self_data' = <<SelfDataAfter("business_impact", Data)>>
  /\ UNCHANGED pipeline

CalculateDailyTrends ==
  /\ HasData
  /\ \E daily_trends \in calculate_daily_trends(Data) :
       out' = Returned("daily_trends", <<>>, <<>>, <<>>, <<daily_trends>>)
  /\ self_data' = <<SelfDataAfter("daily_trends", Data)>>
  /\ UNCHANGED pipeline

CalculateSeasonalPatterns ==
  /\ HasData
  /\ out' = Returned("seasonal_patterns", <<>>, <<>>, <<>>,
                     <<calculate_seasonal_patterns(Data)>>)
  /\ self_data' = <<SelfDataAfter("seasonal_patterns", Data)>>
  /\ UNCHANGED pipeline

\* A reallocation that takes the bottom performer for the top one as well.
CalculateBudgetOptimizationOneChannel ==
  /\ HasData
  /\ \E channel_perf \in calculate_channel_performance(Data) :
       \E o \in BudgetOpportunities(channel_perf) :
         out' = Returned("budget_optimization", <<channel_perf>>, <<>>, <<>>,
                         <<IF o = <<>> THEN o
                           ELSE [o EXCEPT !.reallocation.to_channel =
                                            o.reallocation.from_channel]>>)
  /\ self_data' = <<SelfDataAfter("budget_optimization", Data)>>
  /\ UNCHANGED pipeline

CalculateBudgetOptimizationOpportunities ==
  /\ HasData
  /\ \E channel_perf \in calculate_channel_performance(Data) :
       \E opportunities \in BudgetOpportunities(channel_perf) :
         out' = Returned("budget_optimization", <<channel_perf>>, <<>>, <<>>,
                         <<opportunities>>)
  /\ self_data' = <<SelfDataAfter("budget_optimization", Data)>>
  /\ UNCHANGED pipeline

CalculateEfficiencyBenchmarks ==
  /\ HasData
  /\ \E channel_perf \in calculate_channel_performance(Data) :
       out' = Returned("efficiency_benchmarks", <<channel_perf>>, <<>>, <<>>,
                       <<EfficiencyBenchmarks(channel_perf)>>)
  /\ self_data' = <<SelfDataAfter("efficiency_benchmarks", Data)>>
  /\ UNCHANGED pipeline

\* generate_executive_summary: the error of get_performance_insights, which
\* it calls, is its own.
GenerateExecutiveSummary ==
  /\ HasData
  /\ \E channel_perf \in calculate_channel_performance(Data) :
       LET business_metrics == calculate_business_impact(Data)
       IN  out' = IF InsightsRaise(channel_perf)
                  THEN Raised("executive_summary", <<channel_perf>>,
                              <<business_metrics>>)
                  ELSE LET insights == get_performance_insights(channel_perf,
                                                                business_metrics)
                       IN  Returned("executive_summary", <<channel_perf>>,
                                    <<business_metrics>>, insights,
                                    <<generate_executive_summary(
                                        business_metrics, channel_perf, insights)>>)
  /\ self_data' = <<SelfDataAfter("executive_summary", Data)>>
  /\ UNCHANGED pipeline

GetPerformanceInsights ==
  /\ HasData
  /\ \E channel_perf \in calculate_channel_performance(Data) :
       LET business_metrics == calculate_business_impact(Data)
       IN  out' = IF InsightsRaise(channel_perf)
                  THEN Raised("performance_insights", <<channel_perf>>,
                              <<business_metrics>>)
                  ELSE Returned("performance_insights", <<channel_perf>>,
                                <<business_metrics>>,
                                get_performance_insights(channel_perf,
                                                         business_metrics),
                                <<>>)
  /\ self_data' = <<SelfDataAfter("performance_insights", Data)>>
  /\ UNCHANGED pipeline

Next ==
  \/ LoadCsvFiles
  \/ ValidateDataFiles
  \/ ProcessAllData
  \/ ProcessAllDataAgain
  \/ NewMarketingAnalytics
  \/ CalculateChannelPerformance
  \/ CalculateBusinessImpact
  \/ GetPerformanceInsights

Spec == Init /\ [][Next]_vars

\* ------------------------------------------------- the analytics on its own
\* load_and_process_data has returned a result for a folder of the four
\* files: the state its three steps leave.
Finished(facebook_rows, google_rows, tiktok_rows, business_rows) ==
  /\ folder_exists = TRUE
  /\ listing = CanonicalListing
  /\ disk = [f \in Range(CanonicalListing) |->
               CASE f = FacebookCsv -> OnDisk(f, MarketingTable(f, facebook_rows))
                 [] f = GoogleCsv   -> OnDisk(f, MarketingTable(f, google_rows))
                 [] f = TikTokCsv   -> OnDisk(f, MarketingTable(f, tiktok_rows))
                 [] f = BusinessCsv -> OnDisk(f, BusinessTable(business_rows))]
  /\ pc = "done"
  /\ data_files = load_csv_files(folder_exists, listing, disk).data_files
  /\ load_error = None
  /\ validation = validate_data_files(data_files)
  /\ result = process_all_data(data_files["facebook"][1], data_files["google"][1],
                               data_files["tiktok"][1], data_files["business"][1])
  /\ ret = [result |-> <<result>>, error |-> None]
  /\ processor = ProcessorAfter(NewProcessor, data_files["facebook"][1],
                                data_files["google"][1], data_files["tiktok"][1],
                                result)
  /\ again = NotProcessed
  /\ self_data = <<>>
  /\ out = NoCall
  /\ session_state = NewSession
  /\ page = HomeRunning

\* One day of one platform: 100 impressions, and clicks, spend and revenue
\* that put the ratios below, on and above the benchmarks of the analytics.
ChannelDays ==
  {MarketingRow(Day(1), 100, c, s, r) :
     c \in {0, 1, 4}, s \in {0 - 1, 0, 1, 2, 5}, r \in {0, 2, 5, 8}}
\* The second platform: absent, or one of three days.
SecondChannel ==
  {<<>>, <<MarketingRow(Day(1), 100, 1, 1, 2)>>,
   <<MarketingRow(Day(1), 100, 0, 2, 8)>>,
   <<MarketingRow(Day(1), 100, 2, 0 - 1, 5)>>}
\* The business side of that day, or of the day after.
BusinessDays ==
  {<<BusinessRow(Day(d), t)>> : d \in Days, t \in {0 - 1, 0, 4, 20}}

\* One or two channels on one day.
InitChannels ==
  \E f \in ChannelDays, g \in SecondChannel, b \in BusinessDays :
    Finished(<<f>>, g, <<>>, b)

\* The longest run of days of the day-by-day tables.
MaxDays == 9
\* n days of one platform, one of them with more spend and one with revenue.
DaysWithSpikes(n, spend_day, revenue_day) ==
  [d \in 1..n |->
     MarketingRow(Day(d), 100, 1, IF d = spend_day THEN 5 ELSE 1,
                  IF d = revenue_day THEN 4 ELSE 0)]

\* Up to MaxDays days (none: an empty final dataset when the business table
\* is empty too).
InitDays ==
  \E n \in 0..MaxDays :
    \E spend_day \in 0..n, revenue_day \in 0..n :
      \E b \in {<<>>, DefaultBusinessRows} :
        Finished(DaysWithSpikes(n, spend_day, revenue_day), <<>>, <<>>, b)

\* About a month of days: revenue 3 on one weekday, 0 on another, 1 on the
\* others, and more on the first day.
MonthOfDays(n, high, low, first) ==
  [d \in 1..n |->
     MarketingRow(Day(d), 100, 1, 1,
                  (IF d = 1 THEN first ELSE 0)
                    + (IF d % 7 = high THEN 3 ELSE IF d % 7 = low THEN 0 ELSE 1))]

InitMonth ==
  \E n \in {29, 30, 31} :
    \E high \in 0..6, low \in 0..6, first \in {0, 7} :
      Finished(MonthOfDays(n, high, low, first), <<>>, <<>>,
               DefaultBusinessRows)

InitAnalytics ==
  \/ InitChannels
  \/ InitDays
  \/ InitMonth

NextAnalytics ==
  \/ NewMarketingAnalytics
  \/ CalculateChannelPerformance
  \/ CalculateBusinessImpact
  \/ CalculateSeasonalPatterns
  \/ CalculateBudgetOptimizationOpportunities
  \/ CalculateEfficiencyBenchmarks
  \/ GenerateExecutiveSummary
  \/ CalculateDailyTrends
  \/ GetPerformanceInsights

SpecAnalytics == InitAnalytics /\ [][NextAnalytics]_vars

\* ------------------------------------------------------ the pages of a session
\* A session: the render of Home with its load_and_process_data, the other
\* pages in any order, and an analytics call of a page.
InitSession ==
  \/ InitFolder
  \/ InitColumns

NextSession ==
  \/ LoadCsvFiles
  \/ ValidateDataFiles
  \/ ProcessAllData
  \/ NewMarketingAnalytics
  \/ ShowHomePageError
  \/ GoHome
  \/ ShowOtherPage
  \/ CalculateBusinessImpact

SpecSession == InitSession /\ [][NextSession]_vars

\* ==================================================================== claims
\* A ratio that is 0 exactly when its denominator is 0.
ZeroGuarded(num, den) == IF den = 0 THEN Zero ELSE Rat(num, den)
\* A ratio that is 0 when its denominator is 0 or negative.
PositiveGuarded(num, den) == IF den <= 0 THEN Zero ELSE Rat(num, den)

\* The rows create_derived_metrics was given and returned in a run of
\* process_all_data: the combined marketing rows (line 165) and the Total
\* rows (line 134).
DerivedRows ==
  result.with_metrics[1]
    \o SelectSeq(result.marketing_daily[1], LAMBDA r : r.channel = "Total")

RawOfDate(date) ==
  SelectSeq(result.marketing_raw[1], LAMBDA r : r.date = date)

\* C2 as stated: every date's Total roas is the revenue sum over the spend
\* sum, 0 when the spend sum is 0.
C2_AsStated ==
  result.success =>
    \A i \in DOMAIN result.marketing_daily[1] :
      LET t == result.marketing_daily[1][i]
      IN  t.channel = "Total" =>
            t.roas = ZeroGuarded(Sum(Column(RawOfDate(t.date), "revenue")),
                                 Sum(Column(RawOfDate(t.date), "spend")))

\* C2, amended: in the output of aggregate_daily_marketing every date has a
\* Total row, and its roas is (sum of revenue over all rows of the date) /
\* (sum of spend over all rows of the date), 0 when that spend sum is 0 or
\* negative; it is the ratio of the sums, not the mean of the roas values.
C2_TotalRoasRatioOfSums ==
  result.success =>
    /\ \A d \in Range(Column(result.marketing_raw[1], "date")) :
         \E i \in DOMAIN result.marketing_daily[1] :
           /\ result.marketing_daily[1][i].channel = "Total"
           /\ result.marketing_daily[1][i].date = d
    /\ \A i \in DOMAIN result.marketing_daily[1] :
         LET t == result.marketing_daily[1][i]
         IN  t.channel = "Total" =>
               t.roas = PositiveGuarded(
                          Sum(Column(RawOfDate(t.date), "revenue")),
                          Sum(Column(RawOfDate(t.date), "spend")))

\* C2's case: a date whose Total roas differs from the mean of its
\* channels' roas values.
C2_Witness ==
  /\ result.success
  /\ \E i \in DOMAIN result.marketing_daily[1] :
       LET t == result.marketing_daily[1][i]
           channel_rows == SelectSeq(result.marketing_daily[1], LAMBDA r :
                             r.date = t.date /\ r.channel # "Total")
       IN  /\ t.channel = "Total"
           /\ Len(channel_rows) >= 2
           /\ t.spend > 0
           /\ t.roas # RMean(Column(channel_rows, "roas"))

\* The files of the listing that load_csv_files reads: .csv files whose name
\* holds a source token.
IsMatched(file) ==
  EndsWithCsv(LowerName(file)) /\ MatchedKey(LowerName(file)) # None
\* The position of the first matched file that does not parse, 0 if none.
FirstBad ==
  IF \E i \in DOMAIN listing : IsMatched(listing[i]) /\ ~disk[listing[i]].parses
  THEN CHOOSE i \in DOMAIN listing :
         /\ IsMatched(listing[i]) /\ ~disk[listing[i]].parses
         /\ \A j \in 1..(i - 1) :
              ~(IsMatched(listing[j]) /\ ~disk[listing[j]].parses)
  ELSE 0
\* The sources the folder holds a matched file for.
SourcesInFolder ==
  {MatchedKey(LowerName(listing[i])) :
     i \in {j \in DOMAIN listing : IsMatched(listing[j])}}
AllSourcesLoaded == \A k \in KeySet : data_files[k] # <<>>

\* C3: process_all_data is invoked only after load_csv_files returned no
\* error and validate_data_files found all four sources; whenever the folder
\* is absent, a matched file does not parse or a source is missing,
\* load_and_process_data returns (None, message) and no step of
\* process_all_data has run.
C3_ProcessOnlyAfterLoadAndValidate ==
  /\ (pc = "validated" \/ result # NotProcessed) =>
       /\ load_error = None
       /\ validation.is_valid
       /\ AllSourcesLoaded
  /\ (pc = "done" /\ (~folder_exists \/ FirstBad # 0 \/ SourcesInFolder # KeySet)) =>
       /\ ret.result = <<>>
       /\ ret.error \in {"Data folder not found", "Error loading files",
                         "Missing files"}
       /\ result = NotProcessed

\* C3's case: the folder is there and every file parses, but a source is
\* missing, and load_and_process_data has returned.
C3_Witness ==
  /\ pc = "done"
  /\ folder_exists /\ FirstBad = 0 /\ SourcesInFolder # KeySet
  /\ SourcesInFolder # {}
  /\ ret = [result |-> <<>>, error |-> "Missing files"]

\* C4: validate_data_files fails exactly when at least one of the four
\* required sources is None in the loaded mapping; its message then names
\* every absent source and no present one, in required order; with only
\* Facebook.csv and Google.csv loaded the missing files are tiktok.csv and
\* business.csv.
C4_ValidateNamesEveryAbsent ==
  validation.message # None =>
    /\ validation.is_valid <=> AllSourcesLoaded
    /\ validation.is_valid <=> (validation.message = "All files loaded successfully")
    /\ Range(validation.missing) =
         {k \o ".csv" : k \in {q \in KeySet : data_files[q] = <<>>}}
    /\ Len(validation.missing) =
         Cardinality({q \in KeySet : data_files[q] = <<>>})
    /\ (Range(listing) = {FacebookCsv, GoogleCsv}) =>
         validation.missing = <<"tiktok.csv", "business.csv">>

\* C4's case: a folder of exactly Facebook.csv and Google.csv was validated.
C4_Witness ==
  /\ Range(listing) = {FacebookCsv, GoogleCsv}
  /\ validation.message = "Missing files"
  /\ Len(validation.missing) = 2

\* The mapping load_csv_files has filled when it reaches position n of the
\* listing: per source, the table of the last matched file before n.
FilledBefore(n) ==
  [k \in KeySet |->
     LET at == {i \in 1..(n - 1) :
                  IsMatched(listing[i]) /\ MatchedKey(LowerName(listing[i])) = k}
     IN  IF at = {} THEN <<>>
         ELSE <<disk[listing[CHOOSE i \in at : \A j \in at : j <= i]].table>>]

\* C5 as stated: with a parse error no parsed table is returned.
C5_AsStated ==
  load_error = "Error loading files" => data_files = EmptyDataFiles

\* C5, amended: if any matched file cannot be parsed, load_csv_files reports
\* an error, and load_and_process_data returns (None, message) without
\* validating or processing; the mapping load_csv_files returns alongside
\* the error holds the tables of the files parsed before the failing one.
C5_ParseErrorReturnsPartialMapping ==
  (pc # "start" /\ folder_exists /\ FirstBad # 0) =>
    /\ load_error = "Error loading files"
    /\ data_files = FilledBefore(FirstBad)
    /\ pc = "done"
    /\ ret = [result |-> <<>>, error |-> "Error loading files"]
    /\ validation = NotValidated
    /\ result = NotProcessed

\* C5's case: a file failed to parse after another had been parsed.
C5_Witness ==
  /\ pc = "done"
  /\ FirstBad > 1
  /\ load_error = "Error loading files"
  /\ data_files # EmptyDataFiles

\* The tables merge_marketing_business joined in a successful run.
DailyMarketing == result.marketing_daily[1]
BusinessClean == clean_business_data(data_files["business"][1]).rows
FinalDataset == result.final_dataset[1]
MetricFields ==
  {"impressions", "clicks", "spend", "revenue", "ctr", "cpc", "roas", "cpm"}

\* C6: after merge_marketing_business every (date, channel) row of the daily
\* marketing aggregate appears in the final dataset with its values, every
\* date of the cleaned business table appears with its revenue even when no
\* marketing row exists for it (and vice versa), no other date appears, and
\* every value the join left missing is 0.
C6_OuterMergeKeepsBothSides ==
  result.success =>
    /\ \A i \in DOMAIN DailyMarketing :
         \E j \in DOMAIN FinalDataset :
           /\ FinalDataset[j].date = DailyMarketing[i].date
           /\ FinalDataset[j].channel = DailyMarketing[i].channel
           /\ \A f \in MetricFields : FinalDataset[j][f] = DailyMarketing[i][f]
    /\ \A i \in DOMAIN BusinessClean :
         \E j \in DOMAIN FinalDataset :
           /\ FinalDataset[j].date = BusinessClean[i].date
           /\ FinalDataset[j].total_revenue = BusinessClean[i].total_revenue
    /\ \A j \in DOMAIN FinalDataset :
         LET r == FinalDataset[j]
             in_marketing == r.date \in Range(Column(DailyMarketing, "date"))
             in_business == r.date \in Range(Column(BusinessClean, "date"))
         IN  /\ in_marketing \/ in_business
             /\ ~in_marketing =>
                  /\ r.channel = "0"
                  /\ \A f \in {"impressions", "clicks", "spend", "revenue"} :
                       r[f] = 0
                  /\ \A f \in {"ctr", "cpc", "roas", "cpm"} : r[f] = Zero
             /\ ~in_business => r.total_revenue = 0

\* C6's case: one date has business revenue and no marketing row, another
\* has marketing rows and no business row.
C6_Witness ==
  /\ result.success
  /\ \E j \in DOMAIN FinalDataset :
       /\ FinalDataset[j].date \notin Range(Column(DailyMarketing, "date"))
       /\ FinalDataset[j].total_revenue > 0
  /\ \E j \in DOMAIN FinalDataset :
       /\ FinalDataset[j].date \notin Range(Column(BusinessClean, "date"))
       /\ FinalDataset[j].channel = "Total"
       /\ FinalDataset[j].spend > 0

\* The channels calculate_channel_performance reports on.
ReportedChannels == Range(Column(Data, "channel")) \ {"Total"}
\* The sum of a column over the rows of one channel of the final dataset.
ChannelSum(channel, field) ==
  Sum(Column(SelectSeq(Data, LAMBDA r : r.channel = channel), field))

\* C7 as stated: one row per channel other than Total, the sums, and ratios
\* of the sums that are 0 when the denominator is 0.
C7_AsStated ==
  out.op = "channel_performance" =>
    LET perf == out.channel_perf[1]
    IN  /\ Len(perf) = Cardinality(ReportedChannels)
        /\ Range(Column(perf, "channel")) = ReportedChannels
        /\ \A i \in DOMAIN perf :
             LET r == perf[i]
             IN  /\ \A f \in {"spend", "revenue", "impressions", "clicks"} :
                      r[f] = ChannelSum(r.channel, f)
                 /\ r.roas = ZeroGuarded(r.revenue, r.spend)
                 /\ r.ctr = ZeroGuarded(r.clicks, r.impressions)
                 /\ r.cpc = ZeroGuarded(r.spend, r.clicks)
                 /\ r.cpm = ZeroGuarded(r.spend * 1000, r.impressions)

\* C7, amended: calculate_channel_performance returns exactly one row per
\* distinct channel of the final dataset other than Total (Total is never a
\* row), each holding the sums of spend, revenue, impressions and clicks
\* over all of that channel's rows and roas/ctr/cpc/cpm computed from those
\* sums: the ratio of the sums, 0 when the denominator is 0 or negative.
C7_ChannelRowsRatioOfSums ==
  out.op = "channel_performance" =>
    LET perf == out.channel_perf[1]
    IN  /\ Len(perf) = Cardinality(ReportedChannels)
        /\ Range(Column(perf, "channel")) = ReportedChannels
        /\ \A i \in DOMAIN perf :
             LET r == perf[i]
             IN  /\ \A f \in {"spend", "revenue", "impressions", "clicks"} :
                      r[f] = ChannelSum(r.channel, f)
                 /\ r.roas = PositiveGuarded(r.revenue, r.spend)
                 /\ r.ctr = PositiveGuarded(r.clicks, r.impressions)
                 /\ r.cpc = PositiveGuarded(r.spend, r.clicks)
                 /\ r.cpm = PositiveGuarded(r.spend * 1000, r.impressions)

\* C7's case: a channel with two rows in the final dataset whose summary
\* roas is not the mean of the rows' roas, beside Total rows that are left
\* out.
C7_Witness ==
  /\ out.op = "channel_performance"
  /\ \E i \in DOMAIN Data : Data[i].channel = "Total"
  /\ \E i \in DOMAIN out.channel_perf[1] :
       LET r == out.channel_perf[1][i]
           g == SelectSeq(Data, LAMBDA d : d.channel = r.channel)
       IN  /\ Len(g) >= 2
           /\ r.spend > 0
           /\ r.roas # RMean(Column(g, "roas"))

RuleOrder(type) ==
  CASE type = "Top Performer"            -> 1
    [] type = "Optimization Opportunity" -> 2
    [] type = "Conversion Optimization"  -> 3
    [] type = "Attribution Gap"          -> 4
    [] type = "Portfolio Risk"           -> 5

\* C9: get_performance_insights never returns more than 5 entries, the fired
\* insights appear in the rule order Top Performer, Optimization
\* Opportunity, Conversion Optimization, Attribution Gap, Portfolio Risk
\* with each type at most once, and Top Performer is the first entry
\* whenever the channel table is not empty.
C9_InsightsInRuleOrder ==
  out.op = "performance_insights" =>
    /\ Len(out.insights) <= 5
    /\ \A i, j \in DOMAIN out.insights :
         i < j => RuleOrder(out.insights[i].type) < RuleOrder(out.insights[j].type)
    /\ out.channel_perf[1] # <<>> =>
         /\ out.insights # <<>>
         /\ out.insights[1].type = "Top Performer"

\* C9's case: all five rules fired.
C9_Witness ==
  /\ out.op = "performance_insights"
  /\ Len(out.insights) = 5
  /\ out.insights[5].type = "Portfolio Risk"

\* C10 as stated: the Top Performer insight names a channel whose roas no
\* other channel exceeds, and projects spend * 0.2 * roas of that channel.
C10_AsStated ==
  (out.op = "performance_insights" /\ ~out.raised /\ out.channel_perf[1] # <<>>) =>
    LET perf == out.channel_perf[1]
        top == out.insights[1]
    IN  /\ top.type = "Top Performer"
        /\ \E i \in DOMAIN perf :
             /\ perf[i].channel = top.channels[1]
             /\ \A j \in DOMAIN perf : RLeq(perf[j].roas, perf[i].roas)
             /\ top.impact = RMul(Rat(perf[i].spend * 2, 10), perf[i].roas)

\* The Total-channel rows of the table the analytics holds, and their sums.
TotalRows == SelectSeq(Data, LAMBDA r : r.channel = "Total")
AttributedRevenue == Sum(Column(TotalRows, "revenue"))
BusinessRevenue == Sum(Column(TotalRows, "total_revenue"))

\* C11 as stated: attribution_rate is attributed revenue / business revenue
\* x 100 over the Total rows, 0 when the business revenue is 0.
C11_AsStated ==
  out.op = "business_impact" =>
    out.business_metrics[1].attribution_rate =
      ZeroGuarded(AttributedRevenue * 100, BusinessRevenue)

\* C11, amended: calculate_business_impact returns attribution_rate = total
\* attributed revenue / total business revenue x 100 over the Total-channel
\* rows, 0 when the total business revenue is 0 or negative; it is never
\* clamped: it lies in [0, 100] when business revenue >= attributed revenue
\* >= 0 and business revenue > 0, and exceeds 100 when attributed revenue
\* exceeds a positive business revenue.
C11_AttributionRateUnclamped ==
  out.op = "business_impact" =>
    LET rate == out.business_metrics[1].attribution_rate
    IN  /\ rate = PositiveGuarded(AttributedRevenue * 100, BusinessRevenue)
        /\ (BusinessRevenue >= AttributedRevenue /\ AttributedRevenue >= 0) =>
             RLeq(Zero, rate) /\ RLeq(rate, FromInt(100))
        /\ (BusinessRevenue > 0 /\ AttributedRevenue > BusinessRevenue) =>
             RLess(FromInt(100), rate)

\* C11's case: the attributed revenue exceeds a positive business revenue
\* and the rate is above 100.
C11_Witness ==
  /\ out.op = "business_impact"
  /\ BusinessRevenue > 0
  /\ AttributedRevenue > BusinessRevenue
  /\ RLess(FromInt(100), out.business_metrics[1].attribution_rate)

\* The dates of the cleaned marketing rows, ascending.
MarketingDates == Ascending(Range(Column(result.marketing_raw[1], "date")))
\* The number of cleaned business rows of one date.
BusinessRowsOn(date) ==
  Len(SelectSeq(BusinessClean, LAMBDA r : r.date = date))
\* The number of rows the outer merge makes of one marketing row of a date.
CopiesOn(date) == IF BusinessRowsOn(date) = 0 THEN 1 ELSE BusinessRowsOn(date)

MeanOf(column, first, last) ==
  Rat(Sum([k \in 1..(last - first + 1) |-> column[first + k - 1]]),
      last - first + 1)

\* C13: calculate_daily_trends returns only the Total-channel rows, all of
\* them, in ascending date order, and for each row the spend, roas and
\* revenue 7-day average is the mean over that row and at most the 6 rows
\* before it: with under 7 rows before and including it, the cumulative
\* mean; no later row enters a row's average.
C13_TrailingSevenDayAverages ==
  out.op = "daily_trends" =>
    LET t == out.value[1]
        spend == Column(t, "spend")
        revenue == Column(t, "revenue")
        roas == Column(t, "roas")
    IN  /\ Len(t) = Len(TotalRows)
        /\ \A i \in DOMAIN t :
             /\ t[i].channel = "Total"
             /\ \E j \in DOMAIN TotalRows :
                  /\ TotalRows[j].date = t[i].date
                  /\ \A f \in DOMAIN TotalRows[j] : t[i][f] = TotalRows[j][f]
             /\ \A j \in DOMAIN t : i < j => t[i].date <= t[j].date
             /\ LET first == IF i <= 7 THEN 1 ELSE i - 6
                IN  /\ t[i].spend_7d_avg = MeanOf(spend, first, i)
                    /\ t[i].revenue_7d_avg = MeanOf(revenue, first, i)
                    /\ t[i].roas_7d_avg =
                         RMean([k \in 1..(i - first + 1) |-> roas[first + k - 1]])

\* C13's case: more than 7 days, and a day whose 7-day average of spend is
\* not the mean of all days so far because the first day has left the
\* window.
C13_Witness ==
  /\ out.op = "daily_trends"
  /\ Len(out.value[1]) > 7
  /\ out.value[1][1].spend > out.value[1][2].spend
  /\ out.value[1][8].spend_7d_avg # MeanOf(Column(out.value[1], "spend"), 1, 8)
  /\ out.value[1][7].spend_7d_avg = MeanOf(Column(out.value[1], "spend"), 1, 7)

\* The mean roas of the Total rows of one weekday.
WeekdayMeanRoas(name) ==
  RMean(Column(SelectSeq(TotalRows, LAMBDA r : day_name(r.date) = name), "roas"))
Weekdays == {day_name(TotalRows[i].date) : i \in DOMAIN TotalRows}

\* C15: calculate_seasonal_patterns returns the empty result, without
\* error, exactly when the table has fewer than 30 Total-channel rows; with
\* 30 or more, best_day is a weekday of maximal mean roas and worst_day one
\* of minimal mean roas, so best_day.avg_roas >= worst_day.avg_roas.
C15_SeasonalPatternsFromThirtyDays ==
  out.op = "seasonal_patterns" =>
    /\ ~out.raised
    /\ out.value[1] = <<>> <=> Len(TotalRows) < 30
    /\ out.value[1] # <<>> =>
         LET best_day == out.value[1].best_day
             worst_day == out.value[1].worst_day
         IN  /\ best_day.day \in Weekdays
             /\ worst_day.day \in Weekdays
             /\ best_day.avg_roas = WeekdayMeanRoas(best_day.day)
             /\ worst_day.avg_roas = WeekdayMeanRoas(worst_day.day)
             /\ \A n \in Weekdays :
                  /\ RLeq(WeekdayMeanRoas(n), best_day.avg_roas)
                  /\ RLeq(worst_day.avg_roas, WeekdayMeanRoas(n))
             /\ RLeq(worst_day.avg_roas, best_day.avg_roas)

\* C15's case: exactly 30 Total rows, and a best weekday whose mean roas is
\* above that of the worst.
C15_Witness ==
  /\ out.op = "seasonal_patterns"
  /\ Len(TotalRows) = 30
  /\ out.value[1] # <<>>
  /\ out.value[1].best_day.day # out.value[1].worst_day.day
  /\ RLess(out.value[1].worst_day.avg_roas, out.value[1].best_day.avg_roas)

\* What C16 states apart from roi_improvement, of a returned mapping o and
\* the channel table perf it was computed from: empty under 2 channels;
\* otherwise 20% of the spend of a lowest-ROAS channel goes to a
\* highest-ROAS channel, the net gain is the amount times the difference of
\* their ROAS, scale_up lists exactly the channels with ROAS over 3.0 and
\* optimize exactly those under 2.0.
ReallocationAsStated(o, perf) ==
  /\ o = <<>> <=> Len(perf) < 2
  /\ o # <<>> =>
       \E from, to \in DOMAIN perf :
         /\ \A k \in DOMAIN perf : /\ RLeq(perf[from].roas, perf[k].roas)
                                   /\ RLeq(perf[k].roas, perf[to].roas)
         /\ o.reallocation.from_channel = perf[from].channel
         /\ o.reallocation.to_channel = perf[to].channel
         /\ o.reallocation.amount = Rat(perf[from].spend * 2, 10)
         /\ o.reallocation.projected_net_gain =
              RMul(o.reallocation.amount,
                   RAdd(perf[to].roas, RMul(FromInt(0 - 1), perf[from].roas)))
         /\ {r.channel : r \in Range(o.scale_up)} =
              {perf[k].channel : k \in {i \in DOMAIN perf : RLess(FromInt(3), perf[i].roas)}}
         /\ {r.channel : r \in Range(o.optimize)} =
              {perf[k].channel : k \in {i \in DOMAIN perf : RLess(perf[i].roas, FromInt(2))}}

\* C16 as stated: ..., and roi_improvement is the net gain divided by the
\* moved amount, 0 when the moved amount is 0.
C16_AsStated ==
  out.op = "budget_optimization" =>
    LET o == out.value[1]
    IN  /\ ReallocationAsStated(o, out.channel_perf[1])
        /\ o # <<>> =>
             o.reallocation.roi_improvement =
               IF o.reallocation.amount = Zero THEN Zero
               ELSE RDiv(o.reallocation.projected_net_gain, o.reallocation.amount)

\* C16: calculate_budget_optimization_opportunities returns the empty
\* mapping with fewer than 2 channels; otherwise it moves 20% of a
\* lowest-ROAS channel's spend to a highest-ROAS channel, the projected net
\* gain is the moved amount times (top ROAS - bottom ROAS), roi_improvement
\* is the net gain divided by the moved amount when that amount is positive
\* and 0 when it is 0 or negative, scale_up lists exactly the channels with
\* ROAS > 3.0 and optimize exactly those with ROAS < 2.0.
C16_RoiOnlyForPositiveAmount ==
  out.op = "budget_optimization" =>
    LET o == out.value[1]
    IN  /\ ~out.raised
        /\ ReallocationAsStated(o, out.channel_perf[1])
        /\ o # <<>> =>
             o.reallocation.roi_improvement =
               IF RLess(Zero, o.reallocation.amount)
               THEN RDiv(o.reallocation.projected_net_gain, o.reallocation.amount)
               ELSE Zero

\* C16's case: the lowest-ROAS channel has negative spend, so the moved
\* amount is negative and the net gain is not 0; a channel is listed for
\* optimization.
C16_Witness ==
  /\ out.op = "budget_optimization"
  /\ out.value[1] # <<>>
  /\ RLess(out.value[1].reallocation.amount, Zero)
  /\ out.value[1].reallocation.projected_net_gain # Zero
  /\ out.value[1].optimize # <<>>

\* The efficiency score stated in C17, from whole-number parts: each part
\* is min(100, ratio x 100), where a ratio n/d against a benchmark b gives
\* 100 n / (d b), and the weights are 5, 3 and 2 tenths.
ScoreAsStated(row) ==
  LET Capped(x) == IF RLess(FromInt(100), x) THEN FromInt(100) ELSE x
      cpc == IF RLess(row.cpc, Rat(1, 10)) THEN Rat(1, 10) ELSE row.cpc
      roas_part == Capped(Rat(row.roas[1] * 100, row.roas[2] * 3))
      ctr_part == Capped(Rat(row.ctr[1] * 100 * 100, row.ctr[2] * 2))
      cpc_part == Capped(Rat(2 * 100 * cpc[2], cpc[1]))
  IN  Rat(roas_part[1] * 5 * ctr_part[2] * cpc_part[2]
            + ctr_part[1] * 3 * roas_part[2] * cpc_part[2]
            + cpc_part[1] * 2 * roas_part[2] * ctr_part[2],
          10 * roas_part[2] * ctr_part[2] * cpc_part[2])

\* C17: each channel's efficiency score is 0.5 x min(100, roas/3.0 x 100)
\* + 0.3 x min(100, ctr/0.02 x 100) + 0.2 x min(100, 2.0/max(cpc, 0.1) x 100),
\* and its grade is A+ from 90, A from 80, B+ from 70, B from 60, C from 50
\* and D below 50, a score on a threshold getting the higher grade.
C17_EfficiencyScoreAndGrade ==
  out.op = "efficiency_benchmarks" =>
    /\ ~out.raised
    /\ DOMAIN out.value[1] = Range(Column(out.channel_perf[1], "channel"))
    /\ \A i \in DOMAIN out.channel_perf[1] :
         LET row == out.channel_perf[1][i]
             e == out.value[1][row.channel]
             score == e.efficiency_score
             AtLeast(n) == score[1] >= n * score[2]
         IN  /\ score = ScoreAsStated(row)
             /\ e.performance_grade =
                  IF AtLeast(90) THEN "A+"
                  ELSE IF AtLeast(80) THEN "A"
                  ELSE IF AtLeast(70) THEN "B+"
                  ELSE IF AtLeast(60) THEN "B"
                  ELSE IF AtLeast(50) THEN "C"
                  ELSE "D"

\* C17's case: a channel whose score is exactly 70 and one whose score is
\* off every threshold, each part of the first at or above its cap.
C17_Witness ==
  /\ out.op = "efficiency_benchmarks"
  /\ \E c \in DOMAIN out.value[1] :
       /\ out.value[1][c].efficiency_score = FromInt(70)
       /\ out.value[1][c].performance_grade = "B+"
       /\ RLess(FromInt(1), out.value[1][c].roas_vs_benchmark)
  /\ \E c \in DOMAIN out.value[1] :
       /\ out.value[1][c].efficiency_score[2] # 1
       /\ out.value[1][c].performance_grade = "D"

\* The overall ROAS of the table: attributed revenue over spend of the
\* Total rows, as a pair of whole numbers (spend > 0), else 0.
OverallRoas ==
  IF Sum(Column(TotalRows, "spend")) > 0
  THEN <<AttributedRevenue, Sum(Column(TotalRows, "spend"))>> ELSE <<0, 1>>

\* C18 as stated: generate_executive_summary returns a summary whose
\* performance_status is Excellent when the overall ROAS is above 4.0, Good
\* when it is above 2.5 and at most 4.0, and Needs Improvement otherwise,
\* and whose top_recommendations are the recommendations of the first up
\* to 3 High-priority insights, in insight order.
C18_AsStated ==
  out.op = "executive_summary" =>
    /\ ~out.raised
    /\ out.value[1].performance_status =
         IF OverallRoas[1] > 4 * OverallRoas[2] THEN "Excellent"
         ELSE IF 2 * OverallRoas[1] > 5 * OverallRoas[2] THEN "Good"
         ELSE "Needs Improvement"
    /\ LET high == SelectSeq(out.insights, LAMBDA i : i.priority = "High")
           recs == out.value[1].top_recommendations
       IN  /\ Len(recs) = IF Len(high) <= 3 THEN Len(high) ELSE 3
           /\ \A k \in DOMAIN recs : recs[k] = recommendation(high[k])

\* C14 as stated: on a final dataset without rows no method of the
\* analytics raises and each returns an empty table, list or mapping, the
\* business impact all-zero metrics; get_performance_insights returns the
\* empty list (and the executive summary, which is built from it, holds no
\* insight and no recommendation).
C14_AsStated ==
  (HasData /\ Data = <<>> /\ out.op # None) =>
    /\ ~out.raised
    /\ out.insights = <<>>
    /\ out.channel_perf # <<>> => out.channel_perf[1] = <<>>
    /\ out.business_metrics # <<>> =>
         out.business_metrics[1] =
           [total_marketing_spend |-> 0, total_attributed_revenue |-> 0,
            total_business_revenue |-> 0, attribution_rate |-> Zero,
            overall_roas |-> Zero, avg_daily_spend |-> Zero,
            avg_daily_revenue |-> Zero, data_period_days |-> 0]
    /\ out.op \in {"daily_trends", "seasonal_patterns", "budget_optimization",
                   "efficiency_benchmarks"} => out.value[1] = <<>>
    /\ out.op = "executive_summary" =>
         /\ out.value[1].key_insights = <<>>
         /\ out.value[1].top_recommendations = <<>>

\* The table MarketingAnalytics was constructed with.
Constructed == ret.result[1].final_dataset[1]

\* What a method of the analytics may yield on a table (the channel table
\* and the opportunities in any of the orders their sorts allow on ties).
Outputs(op, data) ==
  LET business_metrics == calculate_business_impact(data)
      tables == calculate_channel_performance(data)
  IN  CASE op = "channel_performance" ->
             {Returned(op, <<t>>, <<>>, <<>>, <<>>) : t \in tables}
        [] op = "business_impact" ->
             {Returned(op, <<>>, <<business_metrics>>, <<>>, <<>>)}
        [] op = "daily_trends" ->
             {Returned(op, <<>>, <<>>, <<>>, <<t>>) :
                t \in calculate_daily_trends(data)}
        [] op = "seasonal_patterns" ->
             {Returned(op, <<>>, <<>>, <<>>, <<calculate_seasonal_patterns(data)>>)}
        [] op = "efficiency_benchmarks" ->
             {Returned(op, <<t>>, <<>>, <<>>, <<EfficiencyBenchmarks(t)>>) :
                t \in tables}
        [] op = "budget_optimization" ->
             UNION {{Returned(op, <<t>>, <<>>, <<>>, <<o>>) :
                       o \in BudgetOpportunities(t)} : t \in tables}
        [] op = "performance_insights" ->
             {IF InsightsRaise(t) THEN Raised(op, <<t>>, <<business_metrics>>)
              ELSE Returned(op, <<t>>, <<business_metrics>>,
                            get_performance_insights(t, business_metrics), <<>>) :
                t \in tables}
        [] op = "executive_summary" ->
             {IF InsightsRaise(t) THEN Raised(op, <<t>>, <<business_metrics>>)
              ELSE Returned(op, <<t>>, <<business_metrics>>,
                            get_performance_insights(t, business_metrics),
                            <<generate_executive_summary(
                                business_metrics, t,
                                get_performance_insights(t, business_metrics))>>) :
                t \in tables}

NoDateColumn(table) ==
  \A i \in DOMAIN table.cols :
    NormalizeColumn(table.cols[i]) \notin {"date", "order_date"}

\* C21: cleaning a source without a column whose normalized name contains
\* 'date' fails, and process_all_data given such a source reports failure:
\* success is false, there is no final dataset (nor any other table), and
\* load_and_process_data returns no result but the error.
C21_NoDateColumnFails ==
  (pc \in {"done", "rerun"} /\ result # NotProcessed) =>
    /\ \A k \in {"facebook", "google", "tiktok"} :
         NoDateColumn(data_files[k][1]) =>
           clean_marketing_data(data_files[k][1], "Facebook").raised
    /\ NoDateColumn(data_files["business"][1]) =>
         clean_business_data(data_files["business"][1]).raised
    /\ (\E k \in KeySet : NoDateColumn(data_files[k][1])) =>
         /\ ~result.success
         /\ result.final_dataset = <<>>
         /\ result.marketing_raw = <<>>
         /\ result.marketing_daily = <<>>
         /\ result.error # None
         /\ ret.result = <<>>
         /\ ret.error = result.error

\* C21's case: the Facebook feed has no date column, the business table
\* has one, and process_all_data has failed.
C21_Witness ==
  /\ pc = "done"
  /\ result # NotProcessed
  /\ NoDateColumn(data_files["facebook"][1])
  /\ ~NoDateColumn(data_files["business"][1])
  /\ Len(data_files["facebook"][1].rows) = 2
  /\ ~result.success

\* C22: process_all_data always returns one result: when a cleaning (or
\* any later step) failed, success is false, there is an error message and
\* marketing_raw, marketing_daily and final_dataset are all None; when
\* success is true there is a final dataset (and the other two tables, and
\* no error).
C22_OneResultPassOrFail ==
  result # NotProcessed =>
    /\ result.success \in BOOLEAN
    /\ ~result.success =>
         /\ result.error # None
         /\ result.marketing_raw = <<>>
         /\ result.marketing_daily = <<>>
         /\ result.final_dataset = <<>>
    /\ result.success =>
         /\ result.final_dataset # <<>>
         /\ result.marketing_raw # <<>>
         /\ result.marketing_daily # <<>>
         /\ result.error = None
    /\ ((\E k \in {"facebook", "google", "tiktok"} :
            clean_marketing_data(data_files[k][1], "Facebook").raised)
        \/ clean_business_data(data_files["business"][1]).raised)
         => ~result.success

\* C22's case: the three feeds clean, are combined and aggregated, and the
\* merge fails on the business table; nothing of the earlier steps is
\* returned.
C22_Witness ==
  /\ pc = "done"
  /\ result # NotProcessed
  /\ ~combine_marketing_data(data_files["facebook"][1], data_files["google"][1],
                             data_files["tiktok"][1]).raised
  /\ clean_business_data(data_files["business"][1]).raised
  /\ ~result.success
  /\ result.marketing_raw = <<>>

\* The rows with metrics that aggregate_daily_marketing was given which
\* share a date and a channel, and their number in a table.
RowsOf(df, date, channel) ==
  SelectSeq(df, LAMBDA r : r.date = date /\ r.channel = channel)
CountOf(df, date, channel) == Len(RowsOf(df, date, channel))

\* C23: the output of aggregate_daily_marketing has exactly one row for
\* every (date, channel) of its input and no other row with a channel that
\* is not Total; the row's impressions, clicks, spend and revenue are the
\* sums over the input rows of that date and channel and its ctr, cpc, roas
\* and cpm the arithmetic means of those rows' own ratios; and there is
\* exactly one Total row for every date of the input.
C23_OneRowPerDateAndChannel ==
  (result # NotProcessed /\ result.success) =>
    LET input == result.with_metrics[1]
        daily == result.marketing_daily[1]
    IN  /\ \A i \in DOMAIN input :
             /\ CountOf(daily, input[i].date, input[i].channel) = 1
             /\ CountOf(daily, input[i].date, "Total") = 1
        /\ \A j \in DOMAIN daily :
             LET g == RowsOf(input, daily[j].date, daily[j].channel)
             IN  IF daily[j].channel = "Total"
                 THEN \E i \in DOMAIN input : input[i].date = daily[j].date
                 ELSE /\ g # <<>>
                      /\ \A f \in {"impressions", "clicks", "spend", "revenue"} :
                           daily[j][f] = Sum(Column(g, f))
                      /\ \A f \in {"ctr", "cpc", "roas", "cpm"} :
                           daily[j][f] = RMean(Column(g, f))

\* C23's case: a channel with two rows on one date, whose mean roas is not
\* the roas of its summed revenue and spend.
C23_Witness ==
  /\ result # NotProcessed
  /\ result.success
  /\ \E j \in DOMAIN result.marketing_daily[1] :
       LET row == result.marketing_daily[1][j]
       IN  /\ row.channel # "Total"
           /\ CountOf(result.with_metrics[1], row.date, row.channel) = 2
           /\ row.spend > 0
           /\ row.roas # Rat(row.revenue, row.spend)

\* The cell of a raw row under the first column whose normalized name is
\* one of names.
RawCell(table, row, names) ==
  row[CHOOSE i \in DOMAIN table.cols :
        /\ NormalizeColumn(table.cols[i]) \in names
        /\ \A j \in 1..(i - 1) : NormalizeColumn(table.cols[j]) \notin names]
DateNames == {"date", "order_date"}
\* The raw rows of a table whose date cell is a date, in input order.
Parsing(table) ==
  SelectSeq(table.rows, LAMBDA row : RawCell(table, row, DateNames).kind = "date")
\* The number a numeric cell stands for: 0 unless it is a number.
Parsed(cell) == IF cell.kind = "num" THEN cell.v ELSE 0

\* C24: the table clean_marketing_data / clean_business_data returns (for
\* a source with a date column) holds exactly the input rows whose date
\* parses, in input order, none with a missing date, and in each of them
\* every known numeric column holds the parsed number, or 0 where the cell
\* was missing or not a number.
C24_CleanedRows ==
  (result # NotProcessed /\ result.success) =>
    /\ \A k \in {"facebook", "google", "tiktok"} :
         LET table == data_files[k][1]
             kept == Parsing(table)
             clean == clean_marketing_data(table, k).rows
         IN  /\ Len(clean) = Len(kept)
             /\ \A i \in DOMAIN clean :
                  /\ clean[i].date # NaT
                  /\ clean[i].date = RawCell(table, kept[i], DateNames).v
                  /\ clean[i].impressions =
                       Parsed(RawCell(table, kept[i], {"impression", "impressions"}))
                  /\ clean[i].clicks = Parsed(RawCell(table, kept[i], {"clicks"}))
                  /\ clean[i].spend = Parsed(RawCell(table, kept[i], {"spend"}))
                  /\ clean[i].revenue =
                       Parsed(RawCell(table, kept[i], {"attributed_revenue"}))
    /\ LET table == data_files["business"][1]
           kept == Parsing(table)
           clean == clean_business_data(table).rows
       IN  /\ Len(clean) = Len(kept)
           /\ \A i \in DOMAIN clean :
                /\ clean[i].date # NaT
                /\ clean[i].date = RawCell(table, kept[i], DateNames).v
                /\ clean[i].total_revenue =
                     Parsed(RawCell(table, kept[i], {"total_revenue"}))
    /\ Len(result.marketing_raw[1]) =
         Len(Parsing(data_files["facebook"][1]))
           + Len(Parsing(data_files["google"][1]))
           + Len(Parsing(data_files["tiktok"][1]))

\* C24's case: of two Facebook rows the one with a text date is dropped and
\* the one kept has text where its clicks should be, cleaned to 0; the
\* business revenue is missing and cleaned to 0.
C24_Witness ==
  /\ result # NotProcessed
  /\ result.success
  /\ LET table == data_files["facebook"][1]
     IN  /\ Len(table.rows) = 2
         /\ table.rows[1][1].kind = "date"
         /\ table.rows[1][3].kind = "text"
         /\ table.rows[2][1].kind = "text"
         /\ \E i \in DOMAIN result.marketing_raw[1] :
              /\ result.marketing_raw[1][i].channel = "Facebook"
              /\ result.marketing_raw[1][i].clicks = 0
  /\ data_files["business"][1].rows[1][2].kind = "nan"
  /\ \E i \in DOMAIN result.final_dataset[1] :
       result.final_dataset[1][i].total_revenue = 0

\* The channel values as strings, in lexical (code point) order: a digit
\* before a capital letter, "TikTok" before "Total" ('i' before 'o').
LexicalOrder == <<"0", "Facebook", "Google", "TikTok", "Total">>
LexicalPosition(channel) ==
  CHOOSE k \in DOMAIN LexicalOrder : LexicalOrder[k] = channel

\* C25: the final dataset is sorted by date ascending and, within a date,
\* by channel ascending in lexical order, Total where its string falls,
\* whatever the business table holds (dates without marketing rows
\* included).
C25_SortedByDateThenChannel ==
  (result # NotProcessed /\ result.success) =>
    LET final == result.final_dataset[1]
    IN  \A i, j \in DOMAIN final :
          i < j =>
            \/ final[i].date < final[j].date
            \/ /\ final[i].date = final[j].date
               /\ LexicalPosition(final[i].channel) <=
                    LexicalPosition(final[j].channel)

\* C25's case: a business date without marketing rows comes first, then a
\* date with two platforms and its Total row.
C25_Witness ==
  /\ result # NotProcessed
  /\ result.success
  /\ LET final == result.final_dataset[1]
     IN  /\ Len(final) >= 4
         /\ final[1].channel = "0"
         /\ \E i \in DOMAIN final :
              /\ i + 2 \in DOMAIN final
              /\ final[i].date = final[i + 2].date
              /\ final[i].channel # final[i + 1].channel
              /\ final[i + 2].channel = "Total"

\* A file of the folder names a token when its lowered name contains it;
\* it is a csv file when its lowered name ends in '.csv'; its first token
\* is the earliest of facebook, google, tiktok, business that it names.
Names(file, token) == \E i \in DOMAIN file : Lower(file[i]) = token
IsCsv(file) == Lower(file[Len(file)]) = ".csv"
FirstToken(file, token) ==
  \E k \in DOMAIN SourceKeys :
    /\ SourceKeys[k] = token
    /\ Names(file, token)
    /\ \A j \in 1..(k - 1) : ~Names(file, SourceKeys[j])

\* C26 as stated: a source key is left None only when no file name in the
\* directory contains its token (every file naming the token is loaded).
C26_AsStated ==
  (pc # "start" /\ folder_exists /\ load_error = None) =>
    \A k \in KeySet :
      data_files[k] = <<>> <=> ~\E i \in DOMAIN listing : Names(listing[i], k)

\* C26: when load_csv_files reports no error, a source key is left None
\* exactly when the directory holds no file whose name ends in .csv
\* (case-insensitively) and whose first token, in the order facebook,
\* google, tiktok, business, is the key's; a file that names the token but
\* is no .csv file, or names an earlier token as well, does not fill it.
C26_KeyFilledByCsvWithFirstToken ==
  (pc # "start" /\ folder_exists /\ load_error = None) =>
    \A k \in KeySet :
      data_files[k] = <<>> <=>
        ~\E i \in DOMAIN listing : IsCsv(listing[i]) /\ FirstToken(listing[i], k)

\* C26's case: files name google and tiktok, no error is reported, and both
\* keys are left None: one file names facebook first, the other is no csv.
C26_Witness ==
  /\ pc # "start"
  /\ folder_exists
  /\ load_error = None
  /\ \E i, j \in DOMAIN listing :
       /\ IsCsv(listing[i]) /\ Names(listing[i], "google")
       /\ ~IsCsv(listing[j]) /\ Names(listing[j], "tiktok")
  /\ data_files["google"] = <<>>
  /\ data_files["tiktok"] = <<>>
  /\ data_files["facebook"] # <<>>

\* C27 as stated: the total_marketing_spend and total_attributed_revenue
\* that calculate_business_impact returns on the pipeline's final dataset
\* are the sums of spend and of revenue over all cleaned marketing rows,
\* each counted once, whatever the business table.
C27_AsStated ==
  (out.op = "business_impact" /\ result.success) =>
    /\ out.business_metrics[1].total_marketing_spend =
         Sum(Column(result.marketing_raw[1], "spend"))
    /\ out.business_metrics[1].total_attributed_revenue =
         Sum(Column(result.marketing_raw[1], "revenue"))

\* C28: whenever calculate_budget_optimization_opportunities returns a
\* reallocation and no channel has negative spend, from_channel and
\* to_channel are different channels, also when all channels have the same
\* ROAS, and projected_net_gain is not negative.
C28_ReallocationBetweenTwoChannels ==
  (/\ out.op = "budget_optimization"
   /\ out.value[1] # <<>>
   /\ \A i \in DOMAIN out.channel_perf[1] : out.channel_perf[1][i].spend >= 0) =>
    /\ Len(out.channel_perf[1]) >= 2
    /\ out.value[1].reallocation.from_channel # out.value[1].reallocation.to_channel
    /\ out.value[1].reallocation.projected_net_gain[1] >= 0

\* C28's case: two channels of the same positive ROAS and positive spend.
C28_Witness ==
  /\ out.op = "budget_optimization"
  /\ out.value[1] # <<>>
  /\ Len(out.channel_perf[1]) = 2
  /\ out.channel_perf[1][1].roas = out.channel_perf[1][2].roas
  /\ out.channel_perf[1][1].roas # Zero
  /\ RLess(Zero, out.value[1].reallocation.amount)
  /\ out.value[1].reallocation.projected_net_gain = Zero

\* The session holds a processed_data.
Stored == session_state.processed_data # <<>>
\* load_and_process_data has returned, and its load, validation and
\* processing all succeeded.
AllSucceeded ==
  /\ pc = "done"
  /\ load_error = None
  /\ validation.is_valid
  /\ result.success
  /\ ret = [result |-> <<result>>, error |-> None]

\* C29: a page other than Home constructs MarketingAnalytics only when the
\* session holds a processed_data, which only a render of Home stores and
\* only after a load, validation and processing that all succeeded; a page
\* rendered without it warns and stops with no analytics object and no
\* analytics call; nothing is stored after a failed load.
C29_PagesNeedStoredData ==
  [][/\ (page' # page /\ page'.name \in OtherPages) =>
          IF Stored
          THEN /\ page'.outcome = "analytics"
               /\ AllSucceeded
               /\ self_data' = result.final_dataset
          ELSE /\ page'.outcome = "stopped"
               /\ self_data' = self_data
               /\ out' = out
     /\ (session_state'.processed_data # session_state.processed_data) =>
          /\ session_state.current_page = "Home"
          /\ AllSucceeded
          /\ session_state'.processed_data = <<result>>
     /\ Stored' => AllSucceeded'
     /\ (self_data' # <<>> \/ out' # NoCall) => Stored'
    ]_vars

\* C29's case: Home loaded and stored, another page constructed its
\* analytics on the stored final dataset and made a call.
C29_Witness ==
  /\ page.name \in OtherPages
  /\ page.outcome = "analytics"
  /\ Stored
  /\ self_data = result.final_dataset
  /\ out.op = "business_impact"

\* C29's other case: a page rendered after a failed load has stopped.
C29_StoppedAfterFailedLoad ==
  /\ page.name \in OtherPages
  /\ page.outcome = "stopped"
  /\ pc = "done"
  /\ ret.error # None

\* The source keys a file is read into: none for a file that is no .csv
\* file or names no token, else the first token it names.
KeysOf(file) == {k \in KeySet : IsCsv(file) /\ FirstToken(file, k)}
\* The files load_csv_files got to read: all of the listing, or those before
\* the first file of some key that does not parse.
FilesRead ==
  {i \in DOMAIN listing :
     \A j \in 1..i : KeysOf(listing[j]) # {} => disk[listing[j]].parses}

\* C30: load_csv_files assigns each .csv file to at most one source key,
\* the first token its name contains in the order facebook, google, tiktok,
\* business; of the files it read for one key the one listed last gives the
\* key's table, and a file without a .csv extension never fills a key.
C30_FirstTokenLastFileWins ==
  (pc # "start" /\ folder_exists) =>
    /\ \A i \in DOMAIN listing : Cardinality(KeysOf(listing[i])) <= 1
    /\ \A k \in KeySet :
         LET at == {i \in FilesRead : k \in KeysOf(listing[i])}
         IN  data_files[k] =
               IF at = {} THEN <<>>
               ELSE <<disk[listing[CHOOSE i \in at : \A j \in at : j <= i]].table>>

\* C30's case: two .csv files of the key facebook were read, the second
\* names google too, its table replaced the first one's and google is None;
\* a file of another extension names tiktok and left tiktok None.
C30_Witness ==
  /\ pc # "start"
  /\ folder_exists
  /\ load_error = None
  /\ \E i, j, n \in DOMAIN listing :
       /\ i < j
       /\ KeysOf(listing[i]) = {"facebook"}
       /\ KeysOf(listing[j]) = {"facebook"}
       /\ Names(listing[j], "google")
       /\ \A q \in DOMAIN listing : q > j => KeysOf(listing[q]) # {"facebook"}
       /\ data_files["facebook"] = <<disk[listing[j]].table>>
       /\ disk[listing[i]].table # disk[listing[j]].table
       /\ ~IsCsv(listing[n]) /\ Names(listing[n], "tiktok")
  /\ data_files["google"] = <<>>
  /\ data_files["tiktok"] = <<>>

====
